---- MODULE Spec2Model ----
(***************************************************************************)
(* Model of ZkBobClient (src/src/client.ts): the transaction part planner  *)
(* (getTransactionParts), the fee estimation, the optimistic balance, the  *)
(* waits (waitReadyToTransact, waitJobCompleted), the making of            *)
(* transactions, and the optimistic state synchronisation (updateState /   *)
(* updateStateOptimisticWorker).                                           *)
(***************************************************************************)
EXTENDS Integers, Naturals, Sequences, FiniteSets, TLC

(***************************************************************************)
(* Program constants.                                                      *)
(***************************************************************************)
\* client.ts:12
MIN_TX_AMOUNT == 10000000
\* client.ts:13
TX_FEE == 10000000
\* CONSTANTS.IN of ./constants (client.ts:8): maximum input notes per tx
CONSTANTS_IN == 3
\* CONSTANTS.OUT of ./constants (client.ts:8): outputs per transaction
CONSTANTS_OUT == 127
\* client.ts:781
OUTPLUSONE == CONSTANTS_OUT + 1
\* client.ts:782 sets BATCH_SIZE = 10000.  The model scales the batch size
\* down so that a cycle of several batches needs only a few log entries.
BATCH_SIZE == 2

\* client.ts:731
MAX_ATTEMPTS == 300

(***************************************************************************)
(* Bounds of the planner inputs.                                           *)
(***************************************************************************)
MaxNotes == 5

(***************************************************************************)
(* Bounds of the synchronisation model.                                    *)
(***************************************************************************)
\* updateState calls made in one behaviour
MaxCalls == 2
\* entries of a relayer's log
MaxLog == 3
\* failing requests (info, fetch, parseTxs) in one behaviour
MaxFailures == 1
\* the cleanState calls of a token that are pending at a time
MaxCleans == 1

\* HistoryTransactionType (./history)
HistoryTransactionTypes == {"Deposit", "TransferIn", "TransferOut", "Withdrawal"}

\* transactions of one multi-part attempt
MaxParts == 3

\* getJob calls of one waitJobCompleted call
MaxPolls == 4

\* records of a history fixture
MaxRecords == 2
\* the history records of a fixture
RecordValues ==
    [type : HistoryTransactionTypes, amount : {7, 40}, fee : {0, 2},
     pending : BOOLEAN]
\* confirmed balances of a fixture (state.getTotalBalance())
ConfirmedValues == {0, 100}

\* note values (curNote.b), in Gwei
NoteValues == {100, 4000000, 10000000, 30000000}
\* account balances (state.accountBalance())
BalanceValues == {0, 6000000, 40000000}
\* requested amounts (amountGwei)
TargetValues == {0, 250, 10000000, 25000000, 30000000, 36000000, 70000000}
\* fee per transaction (feeGwei); 0 is the default of transferMulti
FeeValues == {0, 10, 1000000, TX_FEE}

(***************************************************************************)
(* Helpers on sequences of numbers.                                        *)
(***************************************************************************)
RECURSIVE SumSeq(_)
SumSeq(s) == IF s = <<>> THEN 0 ELSE Head(s) + SumSeq(Tail(s))

RECURSIVE SumAmounts(_)
SumAmounts(parts) ==
    IF parts = <<>> THEN 0 ELSE Head(parts).amount + SumAmounts(Tail(parts))

BoundedSeq(S, n) == UNION {[1..k -> S] : k \in 0..n}

(***************************************************************************)
(* getTransactionParts, client.ts:657-714.                                 *)
(***************************************************************************)
\* Variant of NotesPartsLoop that closes a group before the last note of a
\* group of CONSTANTS.IN is added, not after it.
RECURSIVE NotesPartsLoop_EarlyFlush(_, _, _, _)
NotesPartsLoop_EarlyFlush(usableNotes, i, curPart, acc) ==
    IF i >= Len(usableNotes) THEN acc
    ELSE LET flushed  == i > 0 /\ (i + 1) % CONSTANTS_IN = 0
             acc1     == IF flushed THEN Append(acc, curPart) ELSE acc
             cur1     == (IF flushed THEN 0 ELSE curPart) + usableNotes[i + 1]
             acc2     == IF i = Len(usableNotes) - 1 THEN Append(acc1, cur1) ELSE acc1
         IN  NotesPartsLoop_EarlyFlush(usableNotes, i + 1, cur1, acc2)

\* client.ts:673-688: the sums of consecutive groups of CONSTANTS.IN notes.
\* i is the 0-based loop index, curPart the running sum, acc the pushed sums.
RECURSIVE NotesPartsLoop(_, _, _, _)
NotesPartsLoop(usableNotes, i, curPart, acc) ==
    IF i >= Len(usableNotes) THEN acc
    ELSE LET flushed  == i > 0 /\ i % CONSTANTS_IN = 0
             acc1     == IF flushed THEN Append(acc, curPart) ELSE acc
             cur1     == (IF flushed THEN 0 ELSE curPart) + usableNotes[i + 1]
             acc2     == IF i = Len(usableNotes) - 1 THEN Append(acc1, cur1) ELSE acc1
         IN  NotesPartsLoop(usableNotes, i + 1, cur1, acc2)

NotesParts(usableNotes) == NotesPartsLoop(usableNotes, 0, 0, <<>>)

\* Variant of PartsLoop that keeps the account balance in the pool of every
\* part (oneTxPart is not reset to 0 after a part is accepted).
RECURSIVE PartsLoop_PoolNotReset(_, _, _, _, _, _)
PartsLoop_PoolNotReset(notesParts, feeGwei, i, oneTxPart, remainAmount, result) ==
    IF ~(i < Len(notesParts) /\ remainAmount > 0)
    THEN [result |-> result, remainAmount |-> remainAmount]
    ELSE LET added   == oneTxPart + notesParts[i + 1]
             clamped == IF added - feeGwei > remainAmount
                        THEN remainAmount + feeGwei ELSE added
         IN  IF clamped < feeGwei \/ clamped < MIN_TX_AMOUNT
             THEN [result |-> result, remainAmount |-> remainAmount]
             ELSE PartsLoop_PoolNotReset(notesParts, feeGwei, i + 1, oneTxPart,
                            remainAmount - (clamped - feeGwei),
                            Append(result, [amount |-> clamped - feeGwei,
                                            fee |-> feeGwei,
                                            accountLimit |-> 0]))

\* Variant of PartsLoop without the MIN_TX_AMOUNT floor of client.ts:698.
RECURSIVE PartsLoop_NoMinimum(_, _, _, _, _, _)
PartsLoop_NoMinimum(notesParts, feeGwei, i, oneTxPart, remainAmount, result) ==
    IF ~(i < Len(notesParts) /\ remainAmount > 0)
    THEN [result |-> result, remainAmount |-> remainAmount]
    ELSE LET added   == oneTxPart + notesParts[i + 1]
             clamped == IF added - feeGwei > remainAmount
                        THEN remainAmount + feeGwei ELSE added
         IN  IF clamped < feeGwei
             THEN [result |-> result, remainAmount |-> remainAmount]
             ELSE PartsLoop_NoMinimum(notesParts, feeGwei, i + 1, 0,
                            remainAmount - (clamped - feeGwei),
                            Append(result, [amount |-> clamped - feeGwei,
                                            fee |-> feeGwei,
                                            accountLimit |-> 0]))

\* client.ts:692-706: one record [result, remainAmount] after the loop.
RECURSIVE PartsLoop(_, _, _, _, _, _)
PartsLoop(notesParts, feeGwei, i, oneTxPart, remainAmount, result) ==
    IF ~(i < Len(notesParts) /\ remainAmount > 0)
    THEN [result |-> result, remainAmount |-> remainAmount]
    ELSE LET added   == oneTxPart + notesParts[i + 1]
             clamped == IF added - feeGwei > remainAmount
                        THEN remainAmount + feeGwei ELSE added
         IN  IF clamped < feeGwei \/ clamped < MIN_TX_AMOUNT
             THEN [result |-> result, remainAmount |-> remainAmount]
             ELSE PartsLoop(notesParts, feeGwei, i + 1, 0,
                            remainAmount - (clamped - feeGwei),
                            Append(result, [amount |-> clamped - feeGwei,
                                            fee |-> feeGwei,
                                            accountLimit |-> 0]))

\* Variant of DiscardIfRemains that returns the parts found so far.
DiscardIfRemains_KeepPartial(loop) == loop.result

\* client.ts:708-710
DiscardIfRemains(loop) ==
    IF loop.remainAmount > 0 THEN <<>> ELSE loop.result

\* Variant of getTransactionParts whose single-part branch needs a balance
\* strictly above amount + fee.
getTransactionParts_Strict(amountGwei, feeGwei, usableNotes, accountBalance) ==
    IF accountBalance > amountGwei + feeGwei
    THEN << [amount |-> amountGwei, fee |-> feeGwei, accountLimit |-> 0] >>
    ELSE DiscardIfRemains(
             PartsLoop(NotesParts(usableNotes), feeGwei, 0, accountBalance,
                       amountGwei, <<>>))

\* client.ts:663-713
getTransactionParts(amountGwei, feeGwei, usableNotes, accountBalance) ==
    IF accountBalance >= amountGwei + feeGwei
    THEN << [amount |-> amountGwei, fee |-> feeGwei, accountLimit |-> 0] >>
    ELSE DiscardIfRemains(
             PartsLoop(NotesParts(usableNotes), feeGwei, 0, accountBalance,
                       amountGwei, <<>>))

(***************************************************************************)
(* Helpers.                                                                *)
(***************************************************************************)
Max2(a, b) == IF a >= b THEN a ELSE b
Min2(a, b) == IF a <= b THEN a ELSE b

(***************************************************************************)
(* Fee estimation, client.ts:584-653.                                      *)
(***************************************************************************)
\* the members of TxType (./tx) that client.ts names
TxTypes == {"Deposit", "Transfer", "Withdraw", "BridgeDeposit"}

\* client.ts:614-621: the relayer fee is the constant TX_FEE
getRelayerFee == TX_FEE

\* client.ts:584-589
atomicTxFee == getRelayerFee + 0

\* Variant of feeEstimate that forgets to multiply the fee by the number of
\* parts.
feeEstimate_NotScaled(amountGwei, txType, usableNotes, accountBalance) ==
    LET relayer    == getRelayerFee
        l1         == 0
        totalPerTx == relayer + l1
        parts      == getTransactionParts(amountGwei, totalPerTx, usableNotes,
                                          accountBalance)
    IN  IF txType = "Transfer" \/ txType = "Withdraw"
        THEN IF Len(parts) = 0
             THEN [txType |-> txType, status |-> "error",
                   message |-> "insufficient funds", plannerCalls |-> 1]
             ELSE [txType |-> txType, status |-> "ok", total |-> totalPerTx,
                   totalPerTx |-> totalPerTx, txCnt |-> Len(parts),
                   relayer |-> relayer, l1 |-> l1, plannerCalls |-> 1]
        ELSE [txType |-> txType, status |-> "ok", total |-> totalPerTx,
              totalPerTx |-> totalPerTx, txCnt |-> 1,
              relayer |-> relayer, l1 |-> l1, plannerCalls |-> 0]

\* client.ts:595-611: the FeeAmount returned, or the error thrown;
\* plannerCalls counts the calls of getTransactionParts made on the way
feeEstimate(amountGwei, txType, usableNotes, accountBalance) ==
    LET relayer    == getRelayerFee
        l1         == 0
        totalPerTx == relayer + l1
        parts      == getTransactionParts(amountGwei, totalPerTx, usableNotes,
                                          accountBalance)
    IN  IF txType = "Transfer" \/ txType = "Withdraw"
        THEN IF Len(parts) = 0
             THEN [txType |-> txType, status |-> "error",
                   message |-> "insufficient funds", plannerCalls |-> 1]
             ELSE [txType |-> txType, status |-> "ok",
                   total |-> totalPerTx * Len(parts),
                   totalPerTx |-> totalPerTx, txCnt |-> Len(parts),
                   relayer |-> relayer, l1 |-> l1, plannerCalls |-> 1]
        ELSE [txType |-> txType, status |-> "ok", total |-> totalPerTx,
              totalPerTx |-> totalPerTx, txCnt |-> 1,
              relayer |-> relayer, l1 |-> l1, plannerCalls |-> 0]

(***************************************************************************)
(* The optimistic balance, client.ts:200-228.                              *)
(***************************************************************************)
\* Variant of RecordDelta that leaves the fee of an outgoing record out.
RecordDelta_FeeIgnored(oneRecord) ==
    IF oneRecord.pending
    THEN CASE oneRecord.type \in {"Deposit", "TransferIn"} -> oneRecord.amount
           [] oneRecord.type \in {"Withdrawal", "TransferOut"} -> 0 - oneRecord.amount
           [] OTHER -> 0
    ELSE 0

\* client.ts:208-224: what one history record adds to pendingDelta
RecordDelta(oneRecord) ==
    IF oneRecord.pending
    THEN CASE oneRecord.type \in {"Deposit", "TransferIn"} -> oneRecord.amount
           [] oneRecord.type \in {"Withdrawal", "TransferOut"} ->
                  0 - (oneRecord.amount + oneRecord.fee)
           [] OTHER -> 0
    ELSE 0

\* client.ts:206-225: the loop over historyRecords
RECURSIVE PendingDelta(_, _)
PendingDelta(historyRecords, pendingDelta) ==
    IF historyRecords = <<>> THEN pendingDelta
    ELSE PendingDelta(Tail(historyRecords),
                      pendingDelta + RecordDelta(Head(historyRecords)))

\* client.ts:203-227, from the confirmed balance and the records read
getOptimisticTotalBalance(confirmed, historyRecords) ==
    confirmed + PendingDelta(historyRecords, 0)

\* Math.ceil(a / b) for integers a >= 0, b > 0
MathCeilDiv(a, b) == (a + b - 1) \div b

\* Variant of calcMaxAvailableTransfer that rounds the number of extra
\* transactions down.
calcMaxAvailableTransfer_Floor(usableNotes, accountBalance) ==
    LET txFee        == atomicTxFee
        txCnt        == IF Len(usableNotes) > CONSTANTS_IN
                        THEN 1 + (Len(usableNotes) - CONSTANTS_IN) \div CONSTANTS_IN
                        ELSE 1
        notesBalance == SumSeq(usableNotes)
        summ         == accountBalance + notesBalance - txFee * txCnt
    IN  IF summ < 0 THEN 0 ELSE summ

\* client.ts:630-652
calcMaxAvailableTransfer(usableNotes, accountBalance) ==
    LET txFee        == atomicTxFee
        txCnt        == IF Len(usableNotes) > CONSTANTS_IN
                        THEN 1 + MathCeilDiv(Len(usableNotes) - CONSTANTS_IN,
                                             CONSTANTS_IN)
                        ELSE 1
        notesBalance == SumSeq(usableNotes)
        summ         == accountBalance + notesBalance - txFee * txCnt
    IN  IF summ < 0 THEN 0 ELSE summ

\* Math.max over a set of indices, starting from -1 (client.ts:813-814)
RECURSIVE MaxFrom(_, _)
MaxFrom(acc, S) ==
    IF S = {} THEN acc
    ELSE LET x == CHOOSE y \in S : TRUE
         IN  MaxFrom(Max2(acc, x), S \ {x})

VARIABLES
    pNotes,      \* planner input: state.usableNotes() values, in spend order
    pBalance,    \* planner input: state.accountBalance()
    pTarget,     \* planner input: amountGwei
    pFee,        \* planner input: feeGwei
    pParts,      \* planner output (Array<TxAmount>)
    pEstimate,   \* what feeEstimate returned or threw
    pMax,        \* what calcMaxAvailableTransfer returned, -1 before
    pc,          \* "input" before the call, then "planned", "estimated"
                 \* or "maxed"
    tokens,              \* this.tokens: the supported token addresses
    nextTreeIndex,       \* zpStates[t].account.nextTreeIndex()
    history,             \* zpStates[t].history: records [index, pending]
    updateStatePromise,  \* the cycle the guard holds, 0 for undefined
    cycles,              \* the runs of updateStateOptimisticWorker, in order
    calls,               \* the updateState calls, in order; st is "waiting",
                         \* "resolved" or "rejected", res the boolean received
    rlog,                \* relayer of token t: the memo owner of each entry
    rMined,              \* relayer of token t: number of mined entries
    rDelta,              \* relayer of token t: deltaIndex reported by /info
    failures,            \* failed requests so far
    applied,             \* per token, the batches <<cycle, start index>> whose
                         \* state update was applied, in order of application
    directRead,          \* getTransactionParts called with updateState =
                         \* false: "none" before the call, then "busy" if a
                         \* batch could still change the account when the
                         \* state was read, "idle" if none could
    freed,               \* free() has been called: state.free() was called on
                         \* the state of every token
    cleaning,            \* per token, the cleanState calls whose clean() call
                         \* has not settled yet
    confirmedBalance,    \* getOptimisticTotalBalance: the balance read
    historyRecords,      \* getOptimisticTotalBalance: the records read
    optimisticBalance,   \* <<v>> once getOptimisticTotalBalance returned v
    balanceStage,        \* getOptimisticTotalBalance within the synchronising
                         \* client: "balance" while the updateState call of
                         \* getTotalBalance is made and awaited, "history"
                         \* while the one of getAllHistory is, "records"
                         \* while the history store is asked for the
                         \* records, then "done" or "error"; "off" elsewhere
    balanceCall,         \* the updateState call that getOptimisticTotalBalance
                         \* awaits: its position in calls (the call is still
                         \* to be made while calls is shorter)
    attepts,             \* waitReadyToTransact: the counter of client.ts:732
    waitPolls,           \* waitReadyToTransact: updateState calls made
    lastReady,           \* waitReadyToTransact: what the last call returned
    waitState,           \* waitReadyToTransact: "poll" while updateState is
                         \* awaited, "sleep" during the interval, then
                         \* "true", "false" or "error"
    method,              \* the transaction method of the attempt
    proofs,              \* per transaction of the attempt: txValid, what
                         \* Proof.verify returned ("unknown" before), and
                         \* task, the state of its proving promise
    attemptState,        \* "syncing" while the method awaits updateState,
                         \* "building" while it awaits the account call
                         \* that builds the transaction data, "proving",
                         \* "signing", "sent", then "jobId" or "failed"
    posted,              \* the bodies POSTed to /sendTransactions: each the
                         \* set of the transactions it carries
    attemptReady,        \* what the updateState call of the attempt resolved
                         \* with: "unknown" before, then "true" or "false"
    jobId,               \* waitJobCompleted: the job waited for
    relayerJob,          \* the relayer's present answer to GET /job/jobId
    jobPolls,            \* waitJobCompleted: getJob calls made
    jobState,            \* waitJobCompleted: "poll" while getJob is awaited,
                         \* "sleep" during the interval, then "returned" or
                         \* "thrown"
    jobResult            \* waitJobCompleted: the hashes returned, or the
                         \* pieces of the message of the error thrown

plannerVars == <<pNotes, pBalance, pTarget, pFee, pParts, pEstimate, pMax, pc>>
syncVars == <<tokens, nextTreeIndex, history, updateStatePromise, cycles,
              calls, rlog, rMined, rDelta, failures, applied, directRead,
              freed, cleaning>>
balanceVars == <<confirmedBalance, historyRecords, optimisticBalance,
                 balanceStage, balanceCall>>
vars == <<pNotes, pBalance, pTarget, pFee, pParts, pEstimate, pMax, pc,
          tokens, nextTreeIndex, history, updateStatePromise, cycles,
          calls, rlog, rMined, rDelta, failures, applied, directRead, freed,
          cleaning,
          confirmedBalance, historyRecords, optimisticBalance,
          balanceStage, balanceCall,
          attepts, waitPolls, lastReady, waitState,
          method, proofs, attemptState, posted, attemptReady,
          jobId, relayerJob, jobPolls, jobState, jobResult>>
waitVars == <<attepts, waitPolls, lastReady, waitState>>
attemptVars == <<method, proofs, attemptState, posted, attemptReady>>
jobVars == <<jobId, relayerJob, jobPolls, jobState, jobResult>>

\* the variables that the actions of one part of the model leave alone
notSync == <<plannerVars, balanceVars, waitVars, attemptVars, jobVars>>
notPlanner == <<syncVars, balanceVars, waitVars, attemptVars, jobVars>>
notBalance == <<plannerVars, syncVars, waitVars, attemptVars, jobVars>>
notWait == <<plannerVars, syncVars, balanceVars, attemptVars, jobVars>>
notAttempt == <<plannerVars, syncVars, balanceVars, waitVars, jobVars>>
notJob == <<plannerVars, syncVars, balanceVars, waitVars, attemptVars>>

AllTokens == {"A", "B"}

\* no synchronisation takes place in the planner specification
SyncOff ==
    /\ tokens = {}
    /\ nextTreeIndex = [t \in AllTokens |-> 0]
    /\ history = [t \in AllTokens |-> {}]
    /\ updateStatePromise = 0
    /\ cycles = <<>>
    /\ calls = <<>>
    /\ rlog = [t \in AllTokens |-> <<>>]
    /\ rMined = [t \in AllTokens |-> 0]
    /\ rDelta = [t \in AllTokens |-> 0]
    /\ failures = 0
    /\ applied = [t \in AllTokens |-> <<>>]
    /\ directRead = "none"
    /\ freed = FALSE
    /\ cleaning = [t \in AllTokens |-> 0]

NoEstimate == [txType |-> "none", status |-> "none"]

\* no planning takes place in the synchronisation specification
PlannerOff ==
    /\ pNotes = <<>>
    /\ pBalance = 0
    /\ pTarget = 0
    /\ pFee = 0
    /\ pParts = <<>>
    /\ pEstimate = NoEstimate
    /\ pMax = -1
    /\ pc = "off"

\* no optimistic balance is computed
BalanceOff ==
    /\ confirmedBalance = 0
    /\ historyRecords = <<>>
    /\ optimisticBalance = <<>>
    /\ balanceStage = "off"
    /\ balanceCall = 0

\* waitReadyToTransact is not called
WaitOff ==
    /\ attepts = 0
    /\ waitPolls = 0
    /\ lastReady = FALSE
    /\ waitState = "off"

\* no transaction is being made
AttemptOff ==
    /\ method = "none"
    /\ proofs = <<>>
    /\ attemptState = "off"
    /\ posted = <<>>
    /\ attemptReady = "unknown"

\* the relayer's answer to GET /job/id for an id it does not know: a string
UnknownJob == [kind |-> "string"]

\* waitJobCompleted is not called
JobOff ==
    /\ jobId = "none"
    /\ relayerJob = UnknownJob
    /\ jobPolls = 0
    /\ jobState = "off"
    /\ jobResult = <<>>

\* the parts of the model that a specification does not use are idle
OnlySync == PlannerOff /\ BalanceOff /\ WaitOff /\ AttemptOff /\ JobOff
OnlyPlanner == SyncOff /\ BalanceOff /\ WaitOff /\ AttemptOff /\ JobOff
OnlyBalance == SyncOff /\ PlannerOff /\ WaitOff /\ AttemptOff /\ JobOff
OnlyWait == SyncOff /\ PlannerOff /\ BalanceOff /\ AttemptOff /\ JobOff
OnlyAttempt == SyncOff /\ PlannerOff /\ BalanceOff /\ WaitOff /\ JobOff
OnlyJob == SyncOff /\ PlannerOff /\ BalanceOff /\ WaitOff /\ AttemptOff

PlannerInit ==
    /\ pNotes \in BoundedSeq(NoteValues, MaxNotes)
    /\ pBalance \in BalanceValues
    /\ pTarget \in TargetValues
    /\ pFee \in FeeValues
    /\ pParts = <<>>
    /\ pEstimate = NoEstimate
    /\ pMax = -1
    /\ pc = "input"
    /\ OnlyPlanner

Plan ==
    /\ pc = "input"
    /\ pParts' = getTransactionParts(pTarget, pFee, pNotes, pBalance)
    /\ pc' = "planned"
    /\ UNCHANGED <<pNotes, pBalance, pTarget, pFee, pEstimate, pMax>>
    /\ UNCHANGED notPlanner

PlannerNext == Plan

PlannerSpec == PlannerInit /\ [][PlannerNext]_vars

\* the inputs of the fee estimation: the planner is called with the fee of
\* one transaction (client.ts:599-602)
EstimateInit ==
    /\ pNotes \in BoundedSeq(NoteValues, MaxNotes)
    /\ pBalance \in BalanceValues
    /\ pTarget \in TargetValues
    /\ pFee = getRelayerFee
    /\ pParts = <<>>
    /\ pEstimate = NoEstimate
    /\ pMax = -1
    /\ pc = "input"
    /\ OnlyPlanner

\* feeEstimate(tokenAddress, pTarget, txType), client.ts:595-611
FeeEstimate(txType) ==
    /\ pc = "input"
    /\ pEstimate' = feeEstimate(pTarget, txType, pNotes, pBalance)
    /\ pc' = "estimated"
    /\ UNCHANGED <<pNotes, pBalance, pTarget, pFee, pParts, pMax>>
    /\ UNCHANGED notPlanner

\* calcMaxAvailableTransfer(tokenAddress), client.ts:624-653
CalcMaxAvailableTransfer ==
    /\ pc = "input"
    /\ pMax' = calcMaxAvailableTransfer(pNotes, pBalance)
    /\ pc' = "maxed"
    /\ UNCHANGED <<pNotes, pBalance, pTarget, pFee, pParts, pEstimate>>
    /\ UNCHANGED notPlanner

\* getTransactionParts(tokenAddress, pMax, atomicTxFee), client.ts:657-714,
\* called on the same state with the amount that calcMaxAvailableTransfer
\* returned and the fee of client.ts:584-589
PlanMaxAvailable ==
    /\ pc = "maxed"
    /\ pParts' = getTransactionParts(pMax, atomicTxFee, pNotes, pBalance)
    /\ pc' = "maxPlanned"
    /\ UNCHANGED <<pNotes, pBalance, pTarget, pFee, pEstimate, pMax>>
    /\ UNCHANGED notPlanner

EstimateNext ==
    \/ \E txType \in TxTypes : FeeEstimate(txType)
    \/ CalcMaxAvailableTransfer
    \/ PlanMaxAvailable

EstimateSpec == EstimateInit /\ [][EstimateNext]_vars

\* a history fixture: the confirmed balance and the records that
\* getOptimisticTotalBalance reads (client.ts:203-204)
BalanceInit ==
    /\ confirmedBalance \in ConfirmedValues
    /\ historyRecords \in BoundedSeq(RecordValues, MaxRecords)
    /\ optimisticBalance = <<>>
    /\ balanceStage = "off"
    /\ balanceCall = 0
    /\ OnlyBalance

\* getOptimisticTotalBalance(tokenAddress), client.ts:200-228
GetOptimisticTotalBalance ==
    /\ optimisticBalance = <<>>
    /\ optimisticBalance' =
           << getOptimisticTotalBalance(confirmedBalance, historyRecords) >>
    /\ UNCHANGED <<confirmedBalance, historyRecords, balanceStage, balanceCall>>
    /\ UNCHANGED notBalance

BalanceNext == GetOptimisticTotalBalance

BalanceSpec == BalanceInit /\ [][BalanceNext]_vars

(***************************************************************************)
(* waitReadyToTransact, client.ts:727-749.  The result of each updateState *)
(* call is an input: ready, not ready, or a rejection.                     *)
(***************************************************************************)
WaitInit ==
    /\ attepts = 0
    /\ waitPolls = 0
    /\ lastReady = FALSE
    /\ waitState = "poll"
    /\ OnlyWait

\* Variant of AfterNotReady that leaves the loop with break once the
\* attempts are used up, falling through to return true.
AfterNotReady_Break(n) ==
    IF n > MAX_ATTEMPTS THEN "true" ELSE "sleep"

\* client.ts:741-745, n being the counter after attepts++
AfterNotReady(n) ==
    IF n > MAX_ATTEMPTS THEN "false" ELSE "sleep"

\* client.ts:734-738 and 748: updateState resolved to true
PollReady ==
    /\ waitState = "poll"
    /\ waitPolls' = waitPolls + 1
    /\ lastReady' = TRUE
    /\ waitState' = "true"
    /\ UNCHANGED attepts
    /\ UNCHANGED notWait

\* client.ts:734-745: updateState resolved to false
PollNotReady ==
    /\ waitState = "poll"
    /\ waitPolls' = waitPolls + 1
    /\ lastReady' = FALSE
    /\ attepts' = attepts + 1
    /\ waitState' = AfterNotReady(attepts')
    /\ UNCHANGED notWait

\* client.ts:734: updateState rejected, and so does waitReadyToTransact
PollError ==
    /\ waitState = "poll"
    /\ waitPolls' = waitPolls + 1
    /\ waitState' = "error"
    /\ UNCHANGED <<attepts, lastReady>>
    /\ UNCHANGED notWait

\* client.ts:745: the timer of INTERVAL_MS fires
WaitInterval ==
    /\ waitState = "sleep"
    /\ waitState' = "poll"
    /\ UNCHANGED <<attepts, waitPolls, lastReady>>
    /\ UNCHANGED notWait

WaitNext == PollReady \/ PollNotReady \/ PollError \/ WaitInterval

\* every updateState call settles and every timer fires
WaitSpec == WaitInit /\ [][WaitNext]_vars /\ WF_vars(WaitNext)

(***************************************************************************)
(* Making transactions, client.ts:284-574, from the updateState call that  *)
(* the method awaits.                                                      *)
(***************************************************************************)
MultiMethods == {"transferMulti", "withdrawMulti"}
SignedMethods == {"deposit", "depositPermittable"}
SingleMethods == SignedMethods \cup {"transferSingle", "withdrawSingle"}

\* a method has been called and awaits its updateState call
AttemptInit ==
    /\ method \in MultiMethods \cup SingleMethods
    /\ proofs = <<>>
    /\ attemptState = "syncing"
    /\ posted = <<>>
    /\ attemptReady = "unknown"
    /\ OnlyAttempt

\* the methods that can throw in the step in which their updateState call
\* resolves: no transaction part (client.ts:354-356, 404-406), no
\* fromAddress (client.ts:332-334), an output that is not valid
\* (client.ts:510-517), an address that hexToBuf does not take
\* (client.ts:303, 408, 552).  deposit goes from its updateState call
\* straight to the account call (client.ts:464-466).
ThrowingMethods ==
    MultiMethods \cup {"depositPermittable", "transferSingle", "withdrawSingle"}

\* client.ts:298, 464, 505, 549 and, through getTransactionParts, 352 and
\* 402 with 659-661: the updateState call that the method awaits resolves
\* with the flag readyToTransact; the method does not read the flag, goes
\* on and calls the account to build its transaction data (client.ts:304,
\* 367, 422, 466, 522, 554), which it awaits.
Synced(readyToTransact) ==
    /\ attemptState = "syncing"
    /\ attemptReady' = IF readyToTransact THEN "true" ELSE "false"
    /\ attemptState' = "building"
    /\ UNCHANGED <<method, proofs, posted>>
    /\ UNCHANGED notAttempt

\* client.ts:354-356 and 404-406: the updateState call resolved and
\* getTransactionParts returned no part, so that transferMulti or
\* withdrawMulti throws; client.ts:332-334: depositPermittable was called
\* without fromAddress; client.ts:510-517: an output of transferSingle is
\* not valid; client.ts:303, 408, 552: hexToBuf throws on the address of
\* depositPermittable, withdrawMulti or withdrawSingle.  The method rejects
\* in the step in which its updateState call resolves.
SyncedFail(readyToTransact) ==
    /\ attemptState = "syncing"
    /\ method \in ThrowingMethods
    /\ attemptReady' = IF readyToTransact THEN "true" ELSE "false"
    /\ attemptState' = "failed"
    /\ UNCHANGED <<method, proofs, posted>>
    /\ UNCHANGED notAttempt

\* client.ts:304-312, 367-371, 422-426, 466-472, 522-525, 554-563: the
\* account call resolves with the transaction data, in a later task, and
\* proving starts.  txsData of a multi-part attempt has one element per
\* planned part, n of them; the other methods build one transaction.
Built(n) ==
    /\ attemptState = "building"
    /\ method \in SingleMethods => n = 1
    /\ proofs' = [i \in 1..n |-> [txValid |-> "unknown", task |-> "pending"]]
    /\ attemptState' = "proving"
    /\ UNCHANGED <<method, posted>>
    /\ UNCHANGED <<attemptReady, notAttempt>>

\* client.ts:304, 367, 422, 466, 522, 554: the account rejects the call
\* that builds the transaction data, and the method with it
BuildFail ==
    /\ attemptState = "building"
    /\ attemptState' = "failed"
    /\ UNCHANGED <<method, proofs, posted>>
    /\ UNCHANGED <<attemptReady, notAttempt>>

\* the updateState call rejects, and the method with it
SyncError ==
    /\ attemptState = "syncing"
    /\ attemptState' = "failed"
    /\ UNCHANGED <<method, proofs, posted, attemptReady>>
    /\ UNCHANGED notAttempt

\* Variant of ProofTask that does not look at the result of Proof.verify.
ProofTask_NoCheck(txValid) == "fulfilled"

\* client.ts:375-380 (and 316-319, 430-435, 476-479, 529-532, 567-570):
\* how the proving task of one transaction ends, given what Proof.verify
\* returned
ProofTask(txValid) == IF ~txValid THEN "rejected" ELSE "fulfilled"

\* client.ts:69-71: the POST of sendTransactions, carrying the given txs
sendTransactions(txs) == Append(posted, txs)

\* the proving task of transaction i ends: worker.proveTx returned a proof
\* and Proof.verify returned txValid.  Promise.all (client.ts:383, 438)
\* rejects at the first rejected task, while the other tasks go on; when
\* the last task is fulfilled the transactions are sent, after the
\* signature for the two kinds of deposit.
Prove(i, txValid) ==
    /\ method # "none"
    /\ i \in DOMAIN proofs
    /\ proofs[i].task = "pending"
    /\ proofs' = [proofs EXCEPT ![i] =
                      [txValid |-> IF txValid THEN "true" ELSE "false",
                       task |-> ProofTask(txValid)]]
    /\ IF attemptState # "proving"
       THEN UNCHANGED <<attemptState, posted>>
       ELSE IF proofs'[i].task = "rejected"
       THEN attemptState' = "failed" /\ UNCHANGED posted
       ELSE IF \E j \in DOMAIN proofs : proofs'[j].task # "fulfilled"
       THEN UNCHANGED <<attemptState, posted>>
       ELSE IF method \in SignedMethods
       THEN attemptState' = "signing" /\ UNCHANGED posted
       ELSE /\ attemptState' = "sent"
            /\ posted' = sendTransactions(DOMAIN proofs)
    /\ UNCHANGED method
    /\ UNCHANGED <<attemptReady, notAttempt>>

\* client.ts:371 (and 312, 426, 472, 525, 563): worker.proveTx rejects, and
\* with it the proving task of transaction i
ProveError(i) ==
    /\ method # "none"
    /\ i \in DOMAIN proofs
    /\ proofs[i].task = "pending"
    /\ proofs' = [proofs EXCEPT ![i].task = "rejected"]
    /\ attemptState' = IF attemptState = "proving" THEN "failed"
                       ELSE attemptState
    /\ UNCHANGED <<method, posted>>
    /\ UNCHANGED <<attemptReady, notAttempt>>

\* client.ts:73-80: the relayer answers the POST, with a job id or with an
\* error status that sendTransactions throws
Respond(ok) ==
    /\ attemptState = "sent"
    /\ attemptState' = IF ok THEN "jobId" ELSE "failed"
    /\ UNCHANGED <<method, proofs, posted>>
    /\ UNCHANGED <<attemptReady, notAttempt>>

\* client.ts:323-330 and 485-498: the signature arrives and the deposit is
\* sent
Sign ==
    /\ attemptState = "signing"
    /\ attemptState' = "sent"
    /\ posted' = sendTransactions(DOMAIN proofs)
    /\ UNCHANGED <<method, proofs>>
    /\ UNCHANGED <<attemptReady, notAttempt>>

\* client.ts:323 and 485: the signing callback rejects
SignFail ==
    /\ attemptState = "signing"
    /\ attemptState' = "failed"
    /\ UNCHANGED <<method, proofs, posted>>
    /\ UNCHANGED <<attemptReady, notAttempt>>

AttemptNext ==
    \/ \E readyToTransact \in BOOLEAN : Synced(readyToTransact)
    \/ \E readyToTransact \in BOOLEAN : SyncedFail(readyToTransact)
    \/ SyncError
    \/ \E n \in 1..MaxParts : Built(n)
    \/ BuildFail
    \/ \E i \in 1..MaxParts, txValid \in BOOLEAN : Prove(i, txValid)
    \/ \E i \in 1..MaxParts : ProveError(i)
    \/ \E ok \in BOOLEAN : Respond(ok)
    \/ Sign
    \/ SignFail

AttemptSpec == AttemptInit /\ [][AttemptNext]_vars

(***************************************************************************)
(* waitJobCompleted, client.ts:251-275, and the job that the relayer keeps  *)
(* for the id.                                                             *)
(***************************************************************************)
JobIds == {"1", "2"}
\* the hashes of a completed job
HashLists == { <<"0xa">>, <<"0xa", "0xb">> }
\* the reasons that the relayer gives for a failed job
FailureReasons == {"reverted", "nonce too low"}

\* a job that the relayer knows: an object with the state of the job, and
\* with the hashes and the reason of the failure once these exist
PendingJob == [kind |-> "object", state |-> "pending", txHash |-> <<>>,
               failedReason |-> ""]
SettledJobs ==
    {[kind |-> "object", state |-> "completed", txHash |-> h,
      failedReason |-> ""] : h \in HashLists}
    \cup {[kind |-> "object", state |-> "failed", txHash |-> <<>>,
           failedReason |-> r] : r \in FailureReasons}

\* client.ts:83-93: a string answer means that the job is unknown
getJob(res) == IF res.kind = "string" THEN [kind |-> "null"] ELSE res

\* client.ts:259-274: what one iteration of the loop does with the job
JobStep(id, job) ==
    IF job.kind = "null"
    THEN [state |-> "thrown", result |-> <<"Job ", id, " not found">>]
    ELSE IF job.state = "failed"
    THEN [state |-> "thrown",
          result |-> <<"Transaction [job ", id, "] failed">>]
    ELSE IF job.state = "completed"
    THEN [state |-> "returned", result |-> job.txHash]
    ELSE [state |-> "sleep", result |-> <<>>]

JobInit ==
    /\ jobId \in JobIds
    /\ relayerJob \in {UnknownJob, PendingJob}
    /\ jobPolls = 0
    /\ jobState = "poll"
    /\ jobResult = <<>>
    /\ OnlyJob

\* client.ts:257-267: the answer of getJob arrives
PollJob ==
    /\ jobState = "poll"
    /\ jobPolls < MaxPolls
    /\ jobPolls' = jobPolls + 1
    /\ LET step == JobStep(jobId, getJob(relayerJob))
       IN  /\ jobState' = step.state
           /\ jobResult' = step.result
    /\ UNCHANGED <<jobId, relayerJob>>
    /\ UNCHANGED notJob

\* client.ts:269: the timer of INTERVAL_MS fires
JobInterval ==
    /\ jobState = "sleep"
    /\ jobState' = "poll"
    /\ UNCHANGED <<jobId, relayerJob, jobPolls, jobResult>>
    /\ UNCHANGED notJob

\* the relayer completes the job, or the job fails
RelayerSettleJob(res) ==
    /\ jobState \in {"poll", "sleep"}
    /\ relayerJob = PendingJob
    /\ res \in SettledJobs
    /\ relayerJob' = res
    /\ UNCHANGED <<jobId, jobPolls, jobState, jobResult>>
    /\ UNCHANGED notJob

\* the relayer drops the job
RelayerForgetJob ==
    /\ jobState \in {"poll", "sleep"}
    /\ relayerJob # UnknownJob
    /\ relayerJob' = UnknownJob
    /\ UNCHANGED <<jobId, jobPolls, jobState, jobResult>>
    /\ UNCHANGED notJob

JobNext ==
    \/ PollJob
    \/ JobInterval
    \/ \E res \in SettledJobs : RelayerSettleJob(res)
    \/ RelayerForgetJob

JobSpec == JobInit /\ [][JobNext]_vars

(***************************************************************************)
(* Planner properties.                                                     *)
(***************************************************************************)
Funds == pBalance + SumSeq(pNotes)

\* the multi-part branch of client.ts:672 was taken
MultiBranch == ~(pBalance >= pTarget + pFee)

\* C8: getTransactionParts returns either the empty list or a list whose
\* part amounts sum exactly to the requested amount.
C8_AllOrNothing ==
    pc = "planned" => (pParts = <<>> \/ SumAmounts(pParts) = pTarget)

\* a plan of several parts, built from the notes, that serves the amount
C8_Witness ==
    /\ pc = "planned"
    /\ MultiBranch
    /\ Len(pParts) >= 2
    /\ SumAmounts(pParts) = pTarget

\* C9: whenever the requested amount exceeds the funds (account balance plus
\* all note values) less the fee of every part of a plan, the planner returns
\* the empty list: a plan of k parts is returned only if the amount plus k
\* fees is covered by the funds.
C9_Infeasible ==
    \A k \in 1..(MaxNotes + 1) :
        (pc = "planned" /\ pTarget > Funds - pFee * k)
            => Len(pParts) # k

\* the funds cover the amount and one fee but not the fees of the two parts
\* that the notes would need, and the planner returns no plan
C9_Witness ==
    /\ pc = "planned"
    /\ MultiBranch
    /\ Len(NotesParts(pNotes)) >= 2
    /\ pTarget <= Funds - pFee
    /\ pTarget > Funds - pFee * 2
    /\ pParts = <<>>

\* the inputs of the exactness example
ExampleInputs ==
    /\ pBalance = 0
    /\ pNotes = <<100, 100, 100, 100, 100>>
    /\ pTarget = 250
    /\ pFee = 10

\* part i of the plan (1-based) is covered by note chunk i, plus the account
\* balance for the first part only
PartWithinChunk(i) ==
    pParts[i].amount + pParts[i].fee
        <= NotesParts(pNotes)[i] + (IF i = 1 THEN pBalance ELSE 0)

ChunkContribution ==
    (pc = "planned" /\ MultiBranch /\ pParts # <<>>)
        => /\ Len(pParts) <= Len(NotesParts(pNotes))
           /\ \A i \in 1..Len(pParts) : PartWithinChunk(i)

\* C10 as stated: on the example inputs the plan has exactly 2 parts whose
\* amounts sum to 250, and every part of a multi-part plan is covered by its
\* note chunk.
C10_Original ==
    /\ (pc = "planned" /\ ExampleInputs)
           => (Len(pParts) = 2 /\ SumAmounts(pParts) = 250)
    /\ ChunkContribution

\* C10 amended: on the example inputs the planner returns the empty list (the
\* only candidate part, 250 + 10, is below MIN_TX_AMOUNT), and every part of
\* a non-empty multi-part plan is covered by its note chunk.
C10_Exactness ==
    /\ (pc = "planned" /\ ExampleInputs) => pParts = <<>>
    /\ ChunkContribution

C10_Witness ==
    /\ pc = "planned"
    /\ ExampleInputs
    /\ pParts = <<>>

\* C11: whenever the account balance covers the requested amount plus one
\* fee, the plan is exactly one part carrying the whole amount, the fee and
\* a zero account limit, whatever the notes are.
C11_SinglePart ==
    (pc = "planned" /\ pBalance >= pTarget + pFee) =>
        pParts = << [amount |-> pTarget, fee |-> pFee, accountLimit |-> 0] >>

\* the balance equals amount + fee exactly and notes that could serve the
\* amount in several parts are present; one part was planned
C11_Witness ==
    /\ pc = "planned"
    /\ pTarget > 0
    /\ pFee > 0
    /\ pBalance = pTarget + pFee
    /\ Len(pNotes) > CONSTANTS_IN
    /\ Len(pParts) = 1

\* C12: for Transfer and Withdraw, feeEstimate runs the planner with the fee
\* of one transaction; an empty plan makes it fail with an insufficient
\* funds error and no fee amount, otherwise txCnt is the number of parts and
\* total the fee of one transaction times txCnt.  For the other kinds the
\* planner is not called, txCnt is 1 and total the fee of one transaction.
C12_FeeEstimate ==
    pc = "estimated" =>
        LET e     == pEstimate
            parts == getTransactionParts(pTarget, TX_FEE, pNotes, pBalance)
        IN  IF e.txType \in {"Transfer", "Withdraw"}
            THEN /\ e.plannerCalls = 1
                 /\ IF parts = <<>>
                    THEN /\ e.status = "error"
                         /\ e.message = "insufficient funds"
                         /\ "total" \notin DOMAIN e
                    ELSE /\ e.status = "ok"
                         /\ e.totalPerTx = TX_FEE
                         /\ e.txCnt = Len(parts)
                         /\ e.total = e.totalPerTx * e.txCnt
            ELSE /\ e.plannerCalls = 0
                 /\ e.status = "ok"
                 /\ e.txCnt = 1
                 /\ e.totalPerTx = TX_FEE
                 /\ e.total = e.totalPerTx

\* a withdrawal that needs two parts was estimated at two fees
C12_Witness ==
    /\ pc = "estimated"
    /\ pEstimate.txType = "Withdraw"
    /\ pEstimate.status = "ok"
    /\ pEstimate.txCnt = 2
    /\ pEstimate.total = 2 * TX_FEE

\* the least k with k * d >= x
CeilQuotient(x, d) ==
    CHOOSE k \in 0..x : k * d >= x /\ (k = 0 \/ (k - 1) * d < x)

\* C13: calcMaxAvailableTransfer returns
\* max(0, balance + notes - fee * (1 + ceil(max(0, n - IN) / IN))), which is
\* never negative.
C13_MaxAvailable ==
    pc = "maxed" =>
        LET n     == Len(pNotes)
            txCnt == 1 + CeilQuotient(Max2(0, n - CONSTANTS_IN), CONSTANTS_IN)
        IN  /\ pMax = Max2(0, pBalance + SumSeq(pNotes) - TX_FEE * txCnt)
            /\ pMax >= 0

\* one note more than a transaction takes: two fees are set aside
C13_Witness ==
    /\ pc = "maxed"
    /\ Len(pNotes) = CONSTANTS_IN + 1
    /\ pMax > 0
    /\ pMax = pBalance + SumSeq(pNotes) - 2 * TX_FEE

\* the sum of f over the positions of S
RECURSIVE SumOver(_, _)
SumOver(S, f) ==
    IF S = {} THEN 0
    ELSE LET i == CHOOSE j \in S : TRUE
         IN  f[i] + SumOver(S \ {i}, f)

PendingIncoming ==
    {i \in DOMAIN historyRecords :
        /\ historyRecords[i].pending
        /\ historyRecords[i].type \in {"Deposit", "TransferIn"}}

PendingOutgoing ==
    {i \in DOMAIN historyRecords :
        /\ historyRecords[i].pending
        /\ historyRecords[i].type \in {"Withdrawal", "TransferOut"}}

\* C14: the optimistic balance is the confirmed balance plus the amounts of
\* the pending Deposit and TransferIn records minus amount + fee of the
\* pending Withdrawal and TransferOut records; confirmed records add nothing.
C14_OptimisticBalance ==
    optimisticBalance # <<>> =>
        optimisticBalance[1] =
            confirmedBalance
            + SumOver(PendingIncoming,
                      [i \in DOMAIN historyRecords |-> historyRecords[i].amount])
            - SumOver(PendingOutgoing,
                      [i \in DOMAIN historyRecords |->
                          historyRecords[i].amount + historyRecords[i].fee])

\* a fixture with a pending withdrawal that carries a fee and a confirmed
\* deposit: only the withdrawal and its fee are taken off
C14_Witness ==
    /\ optimisticBalance # <<>>
    /\ Len(historyRecords) = 2
    /\ historyRecords[1] = [type |-> "Withdrawal", amount |-> 40, fee |-> 2,
                            pending |-> TRUE]
    /\ historyRecords[2].type = "Deposit"
    /\ ~historyRecords[2].pending
    /\ optimisticBalance[1] = confirmedBalance - 42

\* the transactions of the attempt that were sent to the relayer
Submitted == UNION {posted[k] : k \in DOMAIN posted}

\* C16: a proof that fails verification is never sent: sendTransactions is
\* called at most once, with all the transactions of the attempt, and only
\* when every proof of the attempt has verified; when one proof fails the
\* attempt fails and nothing is submitted, verified parts included.
C16_NoInvalidProofSent ==
    /\ Len(posted) <= 1
    /\ posted # <<>> =>
          /\ Submitted = DOMAIN proofs
          /\ \A i \in DOMAIN proofs : proofs[i].txValid = "true"
    /\ (\E i \in DOMAIN proofs : proofs[i].txValid = "false") =>
          /\ posted = <<>>
          /\ attemptState = "failed"

\* a multi-part attempt in which one proof verified and another one failed:
\* the attempt failed
C16_Witness ==
    /\ method \in MultiMethods
    /\ Len(proofs) >= 2
    /\ \E i, j \in DOMAIN proofs :
          /\ proofs[i].txValid = "true"
          /\ proofs[j].txValid = "false"
    /\ attemptState = "failed"

\* the pieces of the message of the error thrown
MessageParts == {jobResult'[k] : k \in DOMAIN jobResult'}

\* C20: a poll that finds the job unknown ends the wait with an error at
\* once; a poll that finds the job failed ends it with an error that
\* carries the reason given by the relayer; a poll that finds the job
\* completed returns its hashes; any other state leads to the next poll
\* after the interval.
C20_JobOutcome ==
    [][jobPolls' # jobPolls =>
          LET job == getJob(relayerJob)
          IN  IF job.kind = "null"
              THEN /\ jobState' = "thrown"
                   /\ " not found" \in MessageParts
              ELSE IF job.state = "failed"
              THEN /\ jobState' = "thrown"
                   /\ job.failedReason \in MessageParts
              ELSE IF job.state = "completed"
              THEN /\ jobState' = "returned"
                   /\ jobResult' = job.txHash
              ELSE jobState' = "sleep"]_vars

WaitDone == waitState \in {"true", "false", "error"}

\* C15: waitReadyToTransact ends after at most MAX_ATTEMPTS + 1 updateState
\* calls: it returns true exactly when a call reported ready, and returns
\* false, not an error, after MAX_ATTEMPTS + 1 calls none of which did.
C15_BoundedWait ==
    /\ [](waitPolls <= MAX_ATTEMPTS + 1)
    /\ []((waitState = "true") <=> lastReady)
    /\ [](waitState = "false" =>
             /\ waitPolls = MAX_ATTEMPTS + 1
             /\ attepts = MAX_ATTEMPTS + 1
             /\ ~lastReady)
    /\ [](waitPolls = MAX_ATTEMPTS + 1 => WaitDone)
    /\ <>WaitDone

\* all attempts were used up and false was returned
C15_Witness ==
    /\ waitState = "false"
    /\ waitPolls = MAX_ATTEMPTS + 1

(***************************************************************************)
(* The relayer, the worker and the account and history stores that the     *)
(* synchronisation uses.                                                   *)
(***************************************************************************)
\* GET /transactions/v2 (client.ts:58-66): the entries from the one at index
\* offset on, at most limit of them, each with its mined flag and its memo
RelayerTransactions(t, offset, limit) ==
    LET first == offset \div OUTPLUSONE + 1
        last  == Min2(Len(rlog[t]), first + limit - 1)
        n     == IF last >= first THEN last - first + 1 ELSE 0
    IN  [k \in 1..n |->
            [flag |-> IF first + k - 1 <= rMined[t] THEN "1" ELSE "0",
             kind |-> rlog[t][first + k - 1]]]

\* worker.parseTxs (client.ts:850, 863): the memos of the entries that belong
\* to the account; acc is present in the memo of a transaction of our own
DecryptedMemos(indexedTxs) ==
    LET own == SelectSeq(indexedTxs, LAMBDA tx : tx.kind # "other")
    IN  [k \in 1..Len(own) |->
            [index |-> own[k].index, acc |-> own[k].kind = "out"]]

\* worker.parseTxs: the state update covers every entry passed in
StateUpdate(indexedTxs) == {indexedTxs[k].index : k \in 1..Len(indexedTxs)}

\* Variant of AccountUpdateState that moves the next index to the end of the
\* update whatever the index was before.
AccountUpdateState_Assign(nti, stateUpdate) ==
    IF stateUpdate = {} THEN nti
    ELSE MaxFrom(-1, stateUpdate) + OUTPLUSONE

\* account.updateState (client.ts:852): the next index moves to the end of
\* the update, and never back
AccountUpdateState(nti, stateUpdate) ==
    IF stateUpdate = {} THEN nti
    ELSE Max2(nti, MaxFrom(-1, stateUpdate) + OUTPLUSONE)

\* history.saveDecryptedMemo (client.ts:858, 869)
RECURSIVE saveDecryptedMemos(_, _, _)
saveDecryptedMemos(h, memos, pending) ==
    IF memos = <<>> THEN h
    ELSE saveDecryptedMemos(
             h \cup {[index |-> Head(memos).index, pending |-> pending]},
             Tail(memos), pending)

\* history.setLastMinedTxIndex (client.ts:894)
setLastMinedTxIndex(h, index) ==
    {r \in h : ~(r.pending /\ r.index <= index)}

\* history.setLastPendingTxIndex (client.ts:895)
setLastPendingTxIndex(h, index) ==
    {r \in h : ~(r.pending /\ r.index > index)}

(***************************************************************************)
(* updateStateOptimisticWorker, client.ts:780-909.                         *)
(***************************************************************************)
BatchSpan == BATCH_SIZE * OUTPLUSONE

\* client.ts:803: the starting indices of the batches of one cycle
BatchStarts(startIndex, nextIndex) ==
    LET n == IF nextIndex >= startIndex
             THEN (nextIndex - startIndex) \div BatchSpan + 1 ELSE 0
    IN  [k \in 1..n |-> startIndex + (k - 1) * BatchSpan]

NewBatch(i) ==
    [i |-> i, st |-> "fetch", txs |-> <<>>,
     maxMinedIndex |-> -1, maxPendingIndex |-> -1]

\* the error a cycle rejects with: none, the one of the /info request, or
\* the one of the batch that starts at index i, written i
NoError == -1
InfoError == -2

\* client.ts:784-788: the part of the worker that runs within the call
NewCycle(t) ==
    [token |-> t, status |-> "info", startIndex |-> nextTreeIndex[t],
     nextIndex |-> -1, readyToTransact |-> TRUE, outcome |-> FALSE,
     error |-> NoError,
     batches |-> <<>>, maxMinedIndex |-> -1, maxPendingIndex |-> -1]

\* Variant of IndexedTxs that numbers the entries of a batch one by one.
IndexedTxs_NoStride(i, txs) ==
    [k \in 1..Len(txs) |->
        [index |-> i + (k - 1),
         flag |-> txs[k].flag, kind |-> txs[k].kind]]

\* client.ts:816-832: the entries of a batch with their indices
IndexedTxs(i, txs) ==
    [k \in 1..Len(txs) |->
        [index |-> i + (k - 1) * OUTPLUSONE,
         flag |-> txs[k].flag, kind |-> txs[k].kind]]

\* Variant of MinedTxs that takes every entry as mined.
MinedTxs_All(indexed) == indexed

\* client.ts:838-846: classification by the mined flag
MinedTxs(indexed) == SelectSeq(indexed, LAMBDA tx : tx.flag = "1")
PendingTxs(indexed) == SelectSeq(indexed, LAMBDA tx : ~(tx.flag = "1"))

\* Variant of ReadyAfterPending in which every memo overwrites the flag.
ReadyAfterPending_LastMemo(ready, memos) ==
    IF memos = <<>> THEN ready ELSE ~memos[Len(memos)].acc

\* client.ts:871-875: a pending memo of our own clears the readiness flag
ReadyAfterPending(ready, memos) ==
    IF \E k \in 1..Len(memos) : memos[k].acc THEN FALSE ELSE ready

\* Variant of ReduceBatches that keeps the indices of the last batch only.
RECURSIVE ReduceBatches_Last(_, _)
ReduceBatches_Last(batches, acc) ==
    IF batches = <<>> THEN acc
    ELSE ReduceBatches_Last(Tail(batches),
             [maxMinedIndex |-> Head(batches).maxMinedIndex,
              maxPendingIndex |-> Head(batches).maxPendingIndex])

\* client.ts:884-891
RECURSIVE ReduceBatches(_, _)
ReduceBatches(batches, acc) ==
    IF batches = <<>> THEN acc
    ELSE ReduceBatches(Tail(batches),
             [maxMinedIndex |->
                  Max2(acc.maxMinedIndex, Head(batches).maxMinedIndex),
              maxPendingIndex |->
                  Max2(acc.maxPendingIndex, Head(batches).maxPendingIndex)])

\* some batch of a cycle of token t may still call account.updateState
\* (client.ts:852), cs being the cycles
MayMutate(cs, t) ==
    \E d \in 1..Len(cs) :
        /\ cs[d].token = t
        /\ \/ cs[d].status = "info"
           \/ \E b \in 1..Len(cs[d].batches) :
                  cs[d].batches[b].st \in {"fetch", "parseMined"}

\* the callers awaiting cycle c receive its outcome: the boolean of a
\* resolved cycle, the error of a rejected one.  A caller that is
\* getTransactionParts (client.ts:659-666) goes on to read the state of its
\* token as soon as the call resolves: busy tells whether a batch could still
\* change the account at that moment, cs being the cycles then.
Deliver(c, cs, status, outcome) ==
    [k \in 1..Len(calls) |->
        IF calls[k].cyc = c /\ calls[k].st = "waiting"
        THEN [calls[k] EXCEPT !.st = status, !.res = outcome,
                              !.err = cs[c].error,
                              !.busy = /\ status = "resolved"
                                       /\ MayMutate(cs, calls[k].token)]
        ELSE calls[k]]

\* Variant of EndCycle that clears the guard when the worker succeeds only.
EndCycle_ThenOnly(c, cyc, status, outcome) ==
    /\ cycles' = [cycles EXCEPT ![c] =
                     [cyc EXCEPT !.status = status, !.outcome = outcome]]
    /\ updateStatePromise' =
           IF status = "resolved" THEN 0 ELSE updateStatePromise
    /\ calls' = Deliver(c, cycles', status, outcome)

\* the worker's promise settles: the finally callback of client.ts:766-768
\* clears the guard and the awaiting callers continue
EndCycle(c, cyc, status, outcome) ==
    /\ cycles' = [cycles EXCEPT ![c] =
                     [cyc EXCEPT !.status = status, !.outcome = outcome]]
    /\ updateStatePromise' = 0
    /\ calls' = Deliver(c, cycles', status, outcome)

\* Variant of initRes that starts the reduction from index 0.
initRes_Zero == [maxMinedIndex |-> 0, maxPendingIndex |-> 0]

\* client.ts:884
initRes == [maxMinedIndex |-> -1, maxPendingIndex |-> -1]

AllDone(cyc) == \A b \in 1..Len(cyc.batches) : cyc.batches[b].st = "done"

\* client.ts:884-903: once every batch has completed the results are reduced,
\* the history is trimmed and the readiness flag is returned.  cyc and h are
\* the cycle and the history as the completing batch leaves them.
Settle(c, cyc, h) ==
    IF cyc.status = "batches" /\ AllDone(cyc)
    THEN LET totalRes == ReduceBatches(cyc.batches, initRes)
             trimmed  == setLastPendingTxIndex(
                             setLastMinedTxIndex(h, totalRes.maxMinedIndex),
                             totalRes.maxPendingIndex)
         IN  /\ history' = [history EXCEPT ![cyc.token] = trimmed]
             /\ EndCycle(c, [cyc EXCEPT
                                !.maxMinedIndex = totalRes.maxMinedIndex,
                                !.maxPendingIndex = totalRes.maxPendingIndex],
                         "resolved", cyc.readyToTransact)
    ELSE /\ history' = [history EXCEPT ![cyc.token] = h]
         /\ cycles' = [cycles EXCEPT ![c] = cyc]
         /\ UNCHANGED <<updateStatePromise, calls>>

(***************************************************************************)
(* Operations.                                                             *)
(***************************************************************************)
InFlight(c) == cycles[c].status \in {"info", "batches"}
Ended(c) == cycles[c].status \in {"resolved", "rejected"}

\* a call of updateState(t) that awaits cycle c; inFlight and ended are the
\* cycles that were running and that had ended when the call was made
NewCall(t, c) ==
    [token |-> t, cyc |-> c, st |-> "waiting", res |-> FALSE,
     err |-> NoError, busy |-> FALSE,
     inFlight |-> {d \in 1..Len(cycles) : InFlight(d)},
     ended |-> {d \in 1..Len(cycles) : Ended(d)}]

\* Variant of UpdateState that starts a worker on every call.
UpdateState_NoGuard(t) ==
    /\ t \in tokens
    /\ Len(calls) < MaxCalls
    /\ cycles' = Append(cycles, NewCycle(t))
    /\ updateStatePromise' = Len(cycles) + 1
    /\ calls' = Append(calls, NewCall(t, Len(cycles) + 1))
    /\ UNCHANGED <<directRead, freed, cleaning, tokens, nextTreeIndex, history, rlog, rMined, rDelta,
                   failures, applied>>
    /\ UNCHANGED notSync

\* updateState(tokenAddress), client.ts:764-774
UpdateState(t) ==
    /\ t \in tokens
    /\ Len(calls) < MaxCalls
    /\ IF updateStatePromise = 0
       THEN /\ cycles' = Append(cycles, NewCycle(t))
            /\ updateStatePromise' = Len(cycles) + 1
       ELSE UNCHANGED <<cycles, updateStatePromise>>
    /\ calls' = Append(calls, NewCall(t, updateStatePromise'))
    /\ UNCHANGED <<directRead, freed, cleaning, tokens, nextTreeIndex, history, rlog, rMined, rDelta,
                   failures, applied>>
    /\ UNCHANGED notSync

\* Variant of OptimisticIndex without the workaround.
OptimisticIndex_Same(nextIndex) == nextIndex

\* client.ts:790-791: the relayer reports no optimistic index
OptimisticIndex(nextIndex) == nextIndex + 1

\* Variant of InfoOk that trims the history in the up-to-date branch too,
\* with the initial result of client.ts:884.
InfoOk_Trim(c) ==
    /\ c \in 1..Len(cycles)
    /\ cycles[c].status = "info"
    /\ LET cyc             == cycles[c]
           nextIndex       == rDelta[cyc.token]
           optimisticIndex == OptimisticIndex(nextIndex)
           starts          == BatchStarts(cyc.startIndex, nextIndex)
       IN  IF optimisticIndex > cyc.startIndex
           THEN /\ cycles' = [cycles EXCEPT ![c] =
                       [cyc EXCEPT !.status = "batches",
                                   !.nextIndex = nextIndex,
                                   !.batches = [k \in 1..Len(starts) |->
                                                   NewBatch(starts[k])]]]
                /\ UNCHANGED <<updateStatePromise, calls, history>>
           ELSE /\ EndCycle(c, [cyc EXCEPT !.nextIndex = nextIndex],
                            "resolved", TRUE)
                /\ history' = [history EXCEPT ![cyc.token] =
                       setLastPendingTxIndex(
                           setLastMinedTxIndex(history[cyc.token], -1), -1)]
    /\ UNCHANGED <<directRead, freed, cleaning, tokens, nextTreeIndex, rlog, rMined, rDelta,
                   failures, applied>>
    /\ UNCHANGED notSync

\* the answer of /info arrives, client.ts:789-805 and 904-908
InfoOk(c) ==
    /\ c \in 1..Len(cycles)
    /\ cycles[c].status = "info"
    /\ LET cyc             == cycles[c]
           nextIndex       == rDelta[cyc.token]
           optimisticIndex == OptimisticIndex(nextIndex)
           starts          == BatchStarts(cyc.startIndex, nextIndex)
       IN  IF optimisticIndex > cyc.startIndex
           THEN /\ cycles' = [cycles EXCEPT ![c] =
                       [cyc EXCEPT !.status = "batches",
                                   !.nextIndex = nextIndex,
                                   !.batches = [k \in 1..Len(starts) |->
                                                   NewBatch(starts[k])]]]
                /\ UNCHANGED <<updateStatePromise, calls>>
           ELSE EndCycle(c, [cyc EXCEPT !.nextIndex = nextIndex],
                         "resolved", TRUE)
    /\ UNCHANGED <<directRead, freed, cleaning, tokens, nextTreeIndex, history, rlog, rMined, rDelta,
                   failures, applied>>
    /\ UNCHANGED notSync

\* the /info request fails, client.ts:789
InfoFail(c) ==
    /\ c \in 1..Len(cycles)
    /\ cycles[c].status = "info"
    /\ failures < MaxFailures
    /\ failures' = failures + 1
    /\ EndCycle(c, [cycles[c] EXCEPT !.error = InfoError], "rejected", FALSE)
    /\ UNCHANGED <<directRead, freed, cleaning, tokens, nextTreeIndex, history, rlog, rMined, rDelta,
                   applied>>
    /\ UNCHANGED notSync

\* the entries of batch b arrive, client.ts:804-847
FetchOk(c, b) ==
    /\ c \in 1..Len(cycles)
    /\ b \in 1..Len(cycles[c].batches)
    /\ cycles[c].batches[b].st = "fetch"
    /\ LET cyc     == cycles[c]
           i       == cyc.batches[b].i
           indexed == IndexedTxs(i, RelayerTransactions(cyc.token, i, BATCH_SIZE))
           mined   == MinedTxs(indexed)
           pending == PendingTxs(indexed)
           batch   == [i |-> i,
                       st |-> IF Len(mined) > 0 THEN "parseMined"
                              ELSE IF Len(pending) > 0 THEN "parsePending"
                              ELSE "done",
                       txs |-> indexed,
                       maxMinedIndex |-> MaxFrom(-1, StateUpdate(mined)),
                       maxPendingIndex |-> MaxFrom(-1, StateUpdate(pending))]
       IN  Settle(c, [cyc EXCEPT !.batches[b] = batch], history[cyc.token])
    /\ UNCHANGED <<directRead, freed, cleaning, tokens, nextTreeIndex, rlog, rMined, rDelta, failures,
                   applied>>
    /\ UNCHANGED notSync

\* the worker returns the mined memos of batch b, client.ts:850-860
ParseMinedOk(c, b) ==
    /\ c \in 1..Len(cycles)
    /\ b \in 1..Len(cycles[c].batches)
    /\ cycles[c].batches[b].st = "parseMined"
    /\ LET cyc     == cycles[c]
           t       == cyc.token
           mined   == MinedTxs(cyc.batches[b].txs)
           pending == PendingTxs(cyc.batches[b].txs)
       IN  /\ nextTreeIndex' = [nextTreeIndex EXCEPT ![t] =
                   AccountUpdateState(nextTreeIndex[t], StateUpdate(mined))]
           /\ applied' = [applied EXCEPT ![t] =
                   Append(applied[t], <<c, cyc.batches[b].i>>)]
           /\ Settle(c,
                     [cyc EXCEPT !.batches[b].st =
                          IF Len(pending) > 0 THEN "parsePending" ELSE "done"],
                     saveDecryptedMemos(history[t], DecryptedMemos(mined), FALSE))
    /\ UNCHANGED <<directRead, freed, cleaning, tokens, rlog, rMined, rDelta, failures>>
    /\ UNCHANGED notSync

\* the worker returns the pending memos of batch b, client.ts:863-879
ParsePendingOk(c, b) ==
    /\ c \in 1..Len(cycles)
    /\ b \in 1..Len(cycles[c].batches)
    /\ cycles[c].batches[b].st = "parsePending"
    /\ LET cyc     == cycles[c]
           t       == cyc.token
           memos   == DecryptedMemos(PendingTxs(cyc.batches[b].txs))
       IN  Settle(c,
                  [cyc EXCEPT !.batches[b].st = "done",
                              !.readyToTransact =
                                  ReadyAfterPending(cyc.readyToTransact, memos)],
                  saveDecryptedMemos(history[t], memos, TRUE))
    /\ UNCHANGED <<directRead, freed, cleaning, tokens, nextTreeIndex, rlog, rMined, rDelta, failures,
                   applied>>
    /\ UNCHANGED notSync

\* Variant of BatchFail that trims the history on the way out, with the
\* initial result of client.ts:884.
BatchFail_Trim(c, b) ==
    /\ c \in 1..Len(cycles)
    /\ b \in 1..Len(cycles[c].batches)
    /\ cycles[c].batches[b].st \in {"fetch", "parseMined", "parsePending"}
    /\ failures < MaxFailures
    /\ failures' = failures + 1
    /\ LET cyc == [cycles[c] EXCEPT !.batches[b].st = "failed"]
       IN  IF cyc.status = "batches"
           THEN EndCycle(c, [cyc EXCEPT !.error = cyc.batches[b].i],
                         "rejected", FALSE)
           ELSE /\ cycles' = [cycles EXCEPT ![c] = cyc]
                /\ UNCHANGED <<updateStatePromise, calls>>
    /\ history' = [history EXCEPT ![cycles[c].token] =
                       setLastPendingTxIndex(
                           setLastMinedTxIndex(history[cycles[c].token], -1),
                           -1)]
    /\ UNCHANGED <<directRead, freed, cleaning, tokens, nextTreeIndex, rlog, rMined, rDelta,
                   applied>>
    /\ UNCHANGED notSync

\* the fetch or a parseTxs call of batch b fails; Promise.all (client.ts:885)
\* rejects at the first failure, while the other batches go on
BatchFail(c, b) ==
    /\ c \in 1..Len(cycles)
    /\ b \in 1..Len(cycles[c].batches)
    /\ cycles[c].batches[b].st \in {"fetch", "parseMined", "parsePending"}
    /\ failures < MaxFailures
    /\ failures' = failures + 1
    /\ LET cyc == [cycles[c] EXCEPT !.batches[b].st = "failed"]
       IN  IF cyc.status = "batches"
           THEN EndCycle(c, [cyc EXCEPT !.error = cyc.batches[b].i],
                         "rejected", FALSE)
           ELSE /\ cycles' = [cycles EXCEPT ![c] = cyc]
                /\ UNCHANGED <<updateStatePromise, calls>>
    /\ UNCHANGED <<directRead, freed, cleaning, tokens, nextTreeIndex, history, rlog, rMined, rDelta,
                   applied>>
    /\ UNCHANGED notSync

\* getTransactionParts(t, amount, fee, false), client.ts:657-666: with the
\* flag off the state is read at once, whatever the synchronisation does
GetTransactionPartsNoUpdate(t) ==
    /\ t \in tokens
    /\ directRead = "none"
    /\ directRead' = IF MayMutate(cycles, t) THEN "busy" ELSE "idle"
    /\ UNCHANGED <<freed, cleaning, tokens, nextTreeIndex, history, updateStatePromise, cycles,
                   calls, rlog, rMined, rDelta, failures, applied>>
    /\ UNCHANGED notSync

\* cleanState(tokenAddress), client.ts:757-759: clean() is called on the
\* state of the token and awaited, whatever the synchronisation does; the
\* guard is neither read nor set.  What clean() does to the state is not in
\* the source; the data model lets only the state updates of mined entries
\* change the account and names no reset of the history, so the account and
\* the history stay as they are.
cleanState(t) ==
    /\ t \in tokens
    /\ cleaning[t] < MaxCleans
    /\ cleaning' = [cleaning EXCEPT ![t] = cleaning[t] + 1]
    /\ UNCHANGED <<directRead, freed, tokens, nextTreeIndex, history,
                   updateStatePromise, cycles, calls, rlog, rMined, rDelta,
                   failures, applied>>
    /\ UNCHANGED notSync

\* client.ts:759-760: the clean() call awaited by cleanState settles, in a
\* later task, and cleanState resolves or rejects with it
CleanSettled(t) ==
    /\ t \in tokens
    /\ cleaning[t] > 0
    /\ cleaning' = [cleaning EXCEPT ![t] = cleaning[t] - 1]
    /\ UNCHANGED <<directRead, freed, tokens, nextTreeIndex, history,
                   updateStatePromise, cycles, calls, rlog, rMined, rDelta,
                   failures, applied>>
    /\ UNCHANGED notSync

\* free(), client.ts:149-153: state.free() is called on the state of every
\* token; the client checks nowhere whether it was, and goes on as before
free ==
    /\ freed' = TRUE
    /\ UNCHANGED <<directRead, cleaning, tokens, nextTreeIndex, history,
                   updateStatePromise, cycles, calls, rlog, rMined, rDelta,
                   failures, applied>>
    /\ UNCHANGED notSync

\* the relayer's next pending entry is mined
RelayerMine(t) ==
    /\ t \in tokens
    /\ rMined[t] < Len(rlog[t])
    /\ rMined' = [rMined EXCEPT ![t] = rMined[t] + 1]
    /\ UNCHANGED <<directRead, freed, cleaning, tokens, nextTreeIndex, history, updateStatePromise, cycles,
                   calls, rlog, rDelta, failures, applied>>
    /\ UNCHANGED notSync

\* the relayer's /info catches up with the mined entries
RelayerInfo(t) ==
    /\ t \in tokens
    /\ rDelta[t] # rMined[t] * OUTPLUSONE
    /\ rDelta' = [rDelta EXCEPT ![t] = rMined[t] * OUTPLUSONE]
    /\ UNCHANGED <<directRead, freed, cleaning, tokens, nextTreeIndex, history, updateStatePromise, cycles,
                   calls, rlog, rMined, failures, applied>>
    /\ UNCHANGED notSync

\* the memo owners of the log entries: "in" is a note for the account, "out" a
\* transaction of the account, "other" a transaction of somebody else
LogScenarios ==
    { [p \in 1..MaxLog |-> IF p % 2 = 1 THEN "in" ELSE "out"],
      [p \in 1..MaxLog |-> IF p = MaxLog THEN "out"
                           ELSE IF p = MaxLog - 1 THEN "in" ELSE "other"] }

Init ==
    /\ OnlySync
    /\ tokens = {"A"}
    /\ nextTreeIndex = [t \in AllTokens |-> 0]
    /\ history = [t \in AllTokens |-> {}]
    /\ updateStatePromise = 0
    /\ cycles = <<>>
    /\ calls = <<>>
    /\ \E log \in LogScenarios :
           rlog = [t \in AllTokens |->
                      IF t = "A" THEN log ELSE <<>>]
    /\ rMined = [t \in AllTokens |-> 0]
    /\ rDelta = [t \in AllTokens |-> 0]
    /\ failures = 0
    /\ applied = [t \in AllTokens |-> <<>>]
    /\ directRead = "none"
    /\ freed = FALSE
    /\ cleaning = [t \in AllTokens |-> 0]

Next ==
    \/ \E t \in AllTokens : UpdateState(t)
    \/ \E c \in 1..MaxCalls : InfoOk(c)
    \/ \E c \in 1..MaxCalls : InfoFail(c)
    \/ \E c \in 1..MaxCalls, b \in 1..(MaxLog + 1) : FetchOk(c, b)
    \/ \E c \in 1..MaxCalls, b \in 1..(MaxLog + 1) : ParseMinedOk(c, b)
    \/ \E c \in 1..MaxCalls, b \in 1..(MaxLog + 1) : ParsePendingOk(c, b)
    \/ \E c \in 1..MaxCalls, b \in 1..(MaxLog + 1) : BatchFail(c, b)
    \/ \E t \in AllTokens : cleanState(t)
    \/ \E t \in AllTokens : CleanSettled(t)
    \/ free
    \/ \E t \in AllTokens : RelayerMine(t)
    \/ \E t \in AllTokens : RelayerInfo(t)

Spec == Init /\ [][Next]_vars

\* the client of Spec, with calls of getTransactionParts that read the state
\* without synchronising
ReadNext ==
    \/ Next
    \/ \E t \in AllTokens : GetTransactionPartsNoUpdate(t)

ReadSpec == Init /\ [][ReadNext]_vars

\* A client of two tokens.  The relayer of token A holds one mined note for
\* the account, the relayer of token B one pending transaction of the account.
AssetsInit ==
    /\ OnlySync
    /\ tokens = {"A", "B"}
    /\ nextTreeIndex = [t \in AllTokens |-> 0]
    /\ history = [t \in AllTokens |-> {}]
    /\ updateStatePromise = 0
    /\ cycles = <<>>
    /\ calls = <<>>
    /\ rlog = [t \in AllTokens |-> IF t = "A" THEN << "in" >> ELSE << "out" >>]
    /\ rMined = [t \in AllTokens |-> IF t = "A" THEN 1 ELSE 0]
    /\ rDelta = [t \in AllTokens |-> IF t = "A" THEN OUTPLUSONE ELSE 0]
    /\ failures = 0
    /\ applied = [t \in AllTokens |-> <<>>]
    /\ directRead = "none"
    /\ freed = FALSE
    /\ cleaning = [t \in AllTokens |-> 0]

AssetsSpec == AssetsInit /\ [][Next]_vars

\* the index of a transaction that the relayer has dropped from its log
DroppedIndex == MaxLog * OUTPLUSONE

\* A client whose stored history holds the pending record of a transaction
\* that the relayer has dropped since: the record lies beyond every entry of
\* the relayer's log.
StaleInit ==
    /\ OnlySync
    /\ tokens = {"A"}
    /\ nextTreeIndex = [t \in AllTokens |-> 0]
    /\ history = [t \in AllTokens |->
                     IF t = "A" THEN {[index |-> DroppedIndex, pending |-> TRUE]}
                     ELSE {}]
    /\ updateStatePromise = 0
    /\ cycles = <<>>
    /\ calls = <<>>
    /\ rlog = [t \in AllTokens |->
                  IF t = "A" THEN [p \in 1..MaxLog |->
                                      IF p % 2 = 1 THEN "in" ELSE "out"]
                  ELSE <<>>]
    /\ rMined = [t \in AllTokens |-> 0]
    /\ rDelta = [t \in AllTokens |-> 0]
    /\ failures = 0
    /\ applied = [t \in AllTokens |-> <<>>]
    /\ directRead = "none"
    /\ freed = FALSE
    /\ cleaning = [t \in AllTokens |-> 0]

StaleSpec == StaleInit /\ [][Next]_vars

(***************************************************************************)
(* Synchronisation properties.                                             *)
(***************************************************************************)
Cycles == 1..Len(cycles)
Calls == 1..Len(calls)

\* the entries that cycle record cyc received, over all its batches
SeenTxs(cyc) ==
    UNION {{cyc.batches[b].txs[k] : k \in 1..Len(cyc.batches[b].txs)}
               : b \in 1..Len(cyc.batches)}

\* C1: calls of updateState made while a cycle is running start no further
\* run of the worker (at most one run is in flight, and such a call awaits the
\* running cycle), and all the callers of one cycle receive the identical
\* outcome, which is that cycle's boolean or error.
C1_SingleFlight ==
    /\ Cardinality({c \in Cycles : InFlight(c)}) <= 1
    /\ \A k \in Calls :
           /\ calls[k].inFlight # {} => calls[k].cyc \in calls[k].inFlight
           /\ calls[k].st # "waiting"
                  => /\ calls[k].st = cycles[calls[k].cyc].status
                     /\ calls[k].res = cycles[calls[k].cyc].outcome
    /\ \A k1, k2 \in Calls :
           (calls[k1].cyc = calls[k2].cyc /\ calls[k1].st # "waiting")
               => (calls[k2].st = calls[k1].st /\ calls[k2].res = calls[k1].res)

\* two calls were served by the one cycle, which fetched two batches, and
\* both received false
C1_Witness ==
    /\ Len(calls) = 2
    /\ Len(cycles) = 1
    /\ calls[1].cyc = 1 /\ calls[2].cyc = 1
    /\ calls[2].inFlight = {1}
    /\ Len(cycles[1].batches) >= 2
    /\ calls[1].st = "resolved" /\ calls[2].st = "resolved"
    /\ calls[1].res = FALSE /\ calls[2].res = FALSE

\* C2: the guard never holds a cycle that has ended, whether it resolved or
\* rejected, and no call is served by a cycle that had ended when the call
\* was made.
C2_GuardCleared ==
    /\ updateStatePromise # 0 => InFlight(updateStatePromise)
    /\ \A k \in Calls : calls[k].cyc \notin calls[k].ended

\* a cycle was rejected and a call made afterwards ran a fresh cycle
C2_Witness ==
    /\ Len(cycles) >= 2
    /\ cycles[1].status = "rejected"
    /\ cycles[2].status = "resolved"
    /\ updateStatePromise = 0
    /\ \E k \in Calls :
           calls[k].cyc = 2 /\ 1 \in calls[k].ended /\ calls[k].st = "resolved"

\* C3: the guard is scoped per (client, asset): at most one cycle is in flight
\* for each asset, and every call of updateState(asset) is served by a cycle
\* that synchronised that asset.
C3_PerAsset ==
    /\ \A t \in AllTokens :
           Cardinality({c \in Cycles : InFlight(c) /\ cycles[c].token = t}) <= 1
    /\ \A k \in Calls : cycles[calls[k].cyc].token = calls[k].token

\* cycle c2 is the call that follows the successful cycle c1 of the same
\* token, the relayer reports the same deltaIndex to both, and its log has no
\* entry beyond the local state, mined or pending
SecondCall(c1, c2) ==
    /\ c2 = c1 + 1
    /\ cycles[c1].status = "resolved"
    /\ cycles[c2].status = "resolved"
    /\ cycles[c1].token = cycles[c2].token
    /\ cycles[c1].batches # <<>>
    /\ cycles[c2].nextIndex = cycles[c1].nextIndex
    /\ cycles[c2].startIndex = Len(rlog[cycles[c2].token]) * OUTPLUSONE

\* C4 as stated: the second call returns true and issues no batch fetch.
C4_Original ==
    \A c1, c2 \in Cycles :
        SecondCall(c1, c2)
            => (cycles[c2].outcome = TRUE /\ cycles[c2].batches = <<>>)

\* C4 amended: the second call returns true; it issues no batch fetch when
\* the reported deltaIndex is below nextTreeIndex, and exactly one batch
\* fetch, from nextTreeIndex and returning no entries, when deltaIndex equals
\* nextTreeIndex.
C4_Idempotence ==
    \A c1, c2 \in Cycles :
        SecondCall(c1, c2)
            => /\ cycles[c2].outcome = TRUE
               /\ cycles[c2].nextIndex <= cycles[c2].startIndex
               /\ cycles[c2].nextIndex < cycles[c2].startIndex
                      => cycles[c2].batches = <<>>
               /\ cycles[c2].nextIndex = cycles[c2].startIndex
                      => /\ Len(cycles[c2].batches) = 1
                         /\ cycles[c2].batches[1].i = cycles[c2].startIndex
                         /\ cycles[c2].batches[1].txs = <<>>

\* the second call of a synchronised client fetched one empty batch
C4_Witness ==
    \E c1, c2 \in Cycles :
        /\ SecondCall(c1, c2)
        /\ cycles[c2].nextIndex = cycles[c2].startIndex
        /\ Len(cycles[c2].batches) = 1
        /\ cycles[c2].outcome = TRUE

\* a pending memo of the account's own transaction was received in the cycle
PendingSpendSeen(cyc) ==
    \E tx \in SeenTxs(cyc) : ~(tx.flag = "1") /\ tx.kind = "out"

\* C6: a cycle that resolves returns false if a pending memo with the account
\* component was decrypted in any of its batches, and true otherwise.
C6_PendingGating ==
    \A c \in Cycles :
        cycles[c].status = "resolved"
            => cycles[c].outcome = ~PendingSpendSeen(cycles[c])

\* a cycle of two batches, whose mined entries were all applied, returned
\* false because of a pending spend in its second batch
C6_Witness ==
    \E c \in Cycles :
        /\ cycles[c].status = "resolved"
        /\ cycles[c].outcome = FALSE
        /\ Len(cycles[c].batches) >= 2
        /\ cycles[c].batches[1].maxMinedIndex >= 0
        /\ nextTreeIndex[cycles[c].token]
               = cycles[c].batches[1].maxMinedIndex + OUTPLUSONE
        /\ \E k \in 1..Len(cycles[c].batches[2].txs) :
               /\ ~(cycles[c].batches[2].txs[k].flag = "1")
               /\ cycles[c].batches[2].txs[k].kind = "out"

\* the largest index of an entry that the cycle received as mined
MaxMinedSeen(cyc) ==
    MaxFrom(-1, {tx.index : tx \in {x \in SeenTxs(cyc) : x.flag = "1"}})

\* C7: when a cycle completes, the history of its token holds no pending
\* record with an index up to the largest mined index of the cycle.
C7_TrimCorrect ==
    [][\A c \in Cycles :
          (cycles[c].status = "batches" /\ cycles'[c].status = "resolved")
              => ~(\E r \in history'[cycles[c].token] :
                       r.pending /\ r.index <= MaxMinedSeen(cycles'[c]))]_vars

\* a pending record saved by the first cycle was superseded in the second
\* cycle, which received the entry as mined in the first of its two batches
C7_Witness ==
    /\ Len(cycles) >= 2
    /\ cycles[1].status = "resolved"
    /\ cycles[2].status = "resolved"
    /\ Len(cycles[2].batches) >= 2
    /\ \E tx \in SeenTxs(cycles[1]) :
           /\ ~(tx.flag = "1")
           /\ tx.kind # "other"
           /\ tx.index <= cycles[2].maxMinedIndex
           /\ tx.index < cycles[2].batches[2].i
           /\ [index |-> tx.index, pending |-> FALSE] \in history["A"]
           /\ [index |-> tx.index, pending |-> TRUE] \notin history["A"]

\* C17: when a batch of a running cycle fails, the callers of updateState
\* are rejected with the error of that batch, and the step changes neither
\* the history nor the account: nothing is trimmed and nothing that earlier
\* batches applied is taken back.  Records leave the history only in the step
\* in which a cycle of their token resolves.
C17_FailureSemantics ==
    [][/\ \A c \in Cycles :
             (cycles[c].status = "batches" /\ cycles'[c].status = "rejected")
                 => /\ \E b \in 1..Len(cycles[c].batches) :
                           /\ cycles[c].batches[b].st # "failed"
                           /\ cycles'[c].batches[b].st = "failed"
                           /\ cycles'[c].error = cycles[c].batches[b].i
                    /\ \A k \in Calls :
                           (calls[k].cyc = c /\ calls[k].st = "waiting")
                               => /\ calls'[k].st = "rejected"
                                  /\ calls'[k].err = cycles'[c].error
                    /\ history' = history
                    /\ nextTreeIndex' = nextTreeIndex
                    /\ applied' = applied
       /\ \A t \in AllTokens :
             (\E r \in history[t] : r \notin history'[t])
                 => \E c \in Cycles :
                        /\ cycles[c].token = t
                        /\ cycles[c].status = "batches"
                        /\ cycles'[c].status = "resolved"]_vars

\* a cycle of two batches was rejected with the error of one batch, while
\* the state update and the history record of the other batch are in place
C17_Witness ==
    \E c \in Cycles :
        /\ cycles[c].status = "rejected"
        /\ Len(cycles[c].batches) >= 2
        /\ \E b, d \in 1..Len(cycles[c].batches) :
               /\ cycles[c].batches[b].st = "failed"
               /\ cycles[c].error = cycles[c].batches[b].i
               /\ cycles[c].batches[d].st = "done"
               /\ \E m \in 1..Len(applied["A"]) :
                      applied["A"][m] = <<c, cycles[c].batches[d].i>>
        /\ nextTreeIndex["A"] > cycles[c].startIndex
        /\ \E r \in history["A"] : ~r.pending
        /\ \E k \in Calls :
               /\ calls[k].cyc = c
               /\ calls[k].st = "rejected"
               /\ calls[k].err = cycles[c].error

\* C18: the state updates of the batches of one cycle are applied in
\* ascending order of the batches' starting indices.
C18_BatchOrder ==
    \A t \in AllTokens :
        \A m, n \in 1..Len(applied[t]) :
            (m < n /\ applied[t][m][1] = applied[t][n][1])
                => applied[t][m][2] < applied[t][n][2]

\* C19: getTransactionParts reads the notes and the balance only when no
\* batch of any cycle of the token can still change the account, with the
\* updateState flag on (the read follows the resolution of the awaited
\* cycle) and with the flag off.
C19_PlannerIsolation ==
    /\ \A k \in Calls : ~calls[k].busy
    /\ directRead # "busy"

\* C21: a cycle that finds deltaIndex + 1 <= the next index it started from
\* resolves to true in the step in which /info is answered, starts no batch
\* (so no fetch and no decryption), and leaves the account and the history
\* as they are.
C21_UpToDate ==
    [][\A c \in Cycles :
          (/\ cycles[c].status = "info"
           /\ cycles'[c].status # "info"
           /\ cycles'[c].status # "rejected"
           /\ rDelta[cycles[c].token] + 1 <= cycles[c].startIndex)
              => /\ cycles'[c].status = "resolved"
                 /\ cycles'[c].outcome = TRUE
                 /\ cycles'[c].batches = <<>>
                 /\ \A k \in Calls :
                        (calls[k].cyc = c /\ calls[k].st = "waiting")
                            => calls'[k].st = "resolved" /\ calls'[k].res = TRUE
                 /\ history' = history
                 /\ nextTreeIndex' = nextTreeIndex
                 /\ applied' = applied]_vars

\* a cycle took the up-to-date branch while the history held a pending record
C21_Witness ==
    \E c \in Cycles :
        /\ cycles[c].status = "resolved"
        /\ cycles[c].nextIndex >= 0
        /\ cycles[c].nextIndex + 1 <= cycles[c].startIndex
        /\ cycles[c].batches = <<>>
        /\ cycles[c].outcome = TRUE
        /\ \E r \in history["A"] : r.pending
        /\ \E k \in Calls : calls[k].cyc = c /\ calls[k].res = TRUE

\* the batches of cycle c whose state update was applied
AppliedBatches(c) ==
    {applied[cycles[c].token][m][2] :
        m \in {n \in 1..Len(applied[cycles[c].token]) :
                   applied[cycles[c].token][n][1] = c}}

\* C22: the account changes only by the state update of the mined entries
\* of a batch: a batch whose update was applied has received a mined entry,
\* the next index never passes the end of the mined entries received, and a
\* cycle whose entries are all pending leaves the account as it found it.
C22_PendingNoMutation ==
    /\ \A c \in Cycles :
           \A i \in AppliedBatches(c) :
               \E b \in 1..Len(cycles[c].batches) :
                   /\ cycles[c].batches[b].i = i
                   /\ \E k \in 1..Len(cycles[c].batches[b].txs) :
                          cycles[c].batches[b].txs[k].flag = "1"
    /\ \A t \in AllTokens :
           nextTreeIndex[t] <=
               MaxFrom(-1, {MaxMinedSeen(cycles[c]) :
                               c \in {d \in Cycles : cycles[d].token = t}})
               + OUTPLUSONE
    /\ \A t \in AllTokens :
           (\A c \in Cycles : cycles[c].token = t =>
                \A tx \in SeenTxs(cycles[c]) : ~(tx.flag = "1"))
               => nextTreeIndex[t] = 0 /\ applied[t] = <<>>

\* a cycle that received pending entries only has completed: the history
\* holds their records, the account is where it was
C22_Witness ==
    \E c \in Cycles :
        /\ cycles[c].status = "resolved"
        /\ \E tx \in SeenTxs(cycles[c]) : tx.kind # "other"
        /\ \A tx \in SeenTxs(cycles[c]) : ~(tx.flag = "1")
        /\ \E r \in history["A"] : r.pending
        /\ nextTreeIndex["A"] = cycles[c].startIndex
        /\ AppliedBatches(c) = {}

\* the indices given to the entries of batch b of cycle record cyc
BatchIndices(cyc, b) ==
    {cyc.batches[b].txs[k].index : k \in 1..Len(cyc.batches[b].txs)}

\* C23: the batches of a cycle start at startIndex, startIndex +
\* BATCH_SIZE * stride, ... up to nextIndex; a batch holds at most BATCH_SIZE
\* entries, the entry at position k (from 0) of the batch starting at i has
\* index i + k * stride; no index is given in two batches, every stride
\* multiple from startIndex up to nextIndex falls into the window of one
\* batch, and every entry is either mined (flag '1') or pending, never both.
C23_Partition ==
    \A c \in Cycles :
        LET cyc == cycles[c]
            n   == Len(cyc.batches)
        IN  cyc.status # "info" =>
            /\ \A b \in 1..n :
                   /\ cyc.batches[b].i =
                          cyc.startIndex + (b - 1) * BATCH_SIZE * OUTPLUSONE
                   /\ cyc.batches[b].i <= cyc.nextIndex
                   /\ Len(cyc.batches[b].txs) <= BATCH_SIZE
                   /\ \A k \in 1..Len(cyc.batches[b].txs) :
                          cyc.batches[b].txs[k].index =
                              cyc.batches[b].i + (k - 1) * OUTPLUSONE
                   /\ \A k \in 1..Len(cyc.batches[b].txs) :
                          LET tx == cyc.batches[b].txs[k]
                              inMined == \E m \in 1..Len(MinedTxs(cyc.batches[b].txs)) :
                                  MinedTxs(cyc.batches[b].txs)[m] = tx
                              inPending == \E m \in 1..Len(PendingTxs(cyc.batches[b].txs)) :
                                  PendingTxs(cyc.batches[b].txs)[m] = tx
                          IN  /\ inMined # inPending
                              /\ inMined <=> (tx.flag = "1")
            /\ \A b1, b2 \in 1..n :
                   b1 # b2 => BatchIndices(cyc, b1) \cap BatchIndices(cyc, b2) = {}
            /\ \A m \in 0..(MaxLog + 1) :
                   LET j == cyc.startIndex + m * OUTPLUSONE
                   IN  j <= cyc.nextIndex =>
                           \E b \in 1..n :
                               /\ cyc.batches[b].i <= j
                               /\ j < cyc.batches[b].i + BATCH_SIZE * OUTPLUSONE

\* a cycle of two batches has received the entries of both: a full first
\* batch of mined entries and a pending entry in the second
C23_Witness ==
    \E c \in Cycles :
        /\ Len(cycles[c].batches) = 2
        /\ Len(cycles[c].batches[1].txs) = BATCH_SIZE
        /\ \A k \in 1..BATCH_SIZE : cycles[c].batches[1].txs[k].flag = "1"
        /\ Len(cycles[c].batches[2].txs) >= 1
        /\ cycles[c].batches[2].txs[1].flag = "0"

\* the largest index of an entry that the cycle received as pending
MaxPendingSeen(cyc) ==
    MaxFrom(-1, {tx.index : tx \in {x \in SeenTxs(cyc) : ~(x.flag = "1")}})

\* C24: the history is trimmed in the step in which a cycle resolves, when
\* all its batches have completed, and at no other step; the trimming takes
\* the largest index received as mined and the largest index received as
\* pending in the cycle, -1 where there was none; afterwards no pending
\* record is left up to the first or beyond the second, and every other
\* record is still there.
C24_Trimming ==
    [][/\ \A c \in Cycles :
             (cycles[c].status = "batches" /\ cycles'[c].status = "resolved")
                 => LET t  == cycles[c].token
                        mm == MaxMinedSeen(cycles'[c])
                        mp == MaxPendingSeen(cycles'[c])
                    IN  /\ \A b \in 1..Len(cycles'[c].batches) :
                               cycles'[c].batches[b].st = "done"
                        /\ cycles'[c].maxMinedIndex = mm
                        /\ cycles'[c].maxPendingIndex = mp
                        /\ \A r \in history'[t] :
                               r.pending => (r.index > mm /\ r.index <= mp)
                        /\ \A r \in history[t] :
                               (~r.pending \/ (r.index > mm /\ r.index <= mp))
                                   => r \in history'[t]
       /\ \A c \in Cycles :
             (\/ cycles'[c].maxMinedIndex # cycles[c].maxMinedIndex
              \/ cycles'[c].maxPendingIndex # cycles[c].maxPendingIndex
              \/ \E r \in history[cycles[c].token] :
                     r \notin history'[cycles[c].token])
                 => \E d \in Cycles :
                        /\ cycles[d].token = cycles[c].token
                        /\ cycles[d].status = "batches"
                        /\ cycles'[d].status = "resolved"]_vars

\* a cycle that received a mined and a pending entry has resolved; the
\* pending record of the dropped transaction is gone, the pending record of
\* the entry received as pending is kept
C24_Witness ==
    \E c \in Cycles :
        /\ cycles[c].status = "resolved"
        /\ cycles[c].maxMinedIndex >= 0
        /\ cycles[c].maxPendingIndex > cycles[c].maxMinedIndex
        /\ cycles[c].maxPendingIndex < DroppedIndex
        /\ [index |-> DroppedIndex, pending |-> TRUE] \notin history["A"]
        /\ [index |-> cycles[c].maxPendingIndex, pending |-> TRUE]
               \in history["A"]

\* the number of groups of CONSTANTS.IN consecutive notes
ChunkCount == CeilQuotient(Len(pNotes), CONSTANTS_IN)

\* the notes of group j (1-based), in the given order
ChunkPositions(j) ==
    {p \in 1..Len(pNotes) :
        p > (j - 1) * CONSTANTS_IN /\ p <= j * CONSTANTS_IN}

\* the value that funds part j: the notes of group j, plus the account
\* balance for the first part
ChunkFunds(j) ==
    SumOver(ChunkPositions(j), pNotes) + (IF j = 1 THEN pBalance ELSE 0)

\* C25: in the multi-part branch the notes are grouped in the given order
\* into consecutive groups of CONSTANTS.IN notes, the last one possibly
\* smaller; part i is funded by group i, plus the account balance for the
\* first part; every part carries the fee of one transaction; there are no
\* more parts than groups; every part but the last has the full value of
\* its group less the fee, and the last has at most that.
C25_GreedyChunks ==
    (pc = "planned" /\ MultiBranch) =>
        /\ NotesParts(pNotes)
               = [j \in 1..ChunkCount |-> SumOver(ChunkPositions(j), pNotes)]
        /\ \A j \in 1..ChunkCount :
               Cardinality(ChunkPositions(j)) =
                   IF j < ChunkCount THEN CONSTANTS_IN
                   ELSE Len(pNotes) - (ChunkCount - 1) * CONSTANTS_IN
        /\ Len(pParts) <= ChunkCount
        /\ \A i \in 1..Len(pParts) :
               /\ pParts[i].fee = pFee
               /\ i < Len(pParts) => pParts[i].amount = ChunkFunds(i) - pFee
               /\ pParts[i].amount <= ChunkFunds(i) - pFee

\* five notes in two groups, the second smaller; the first part takes the
\* whole of its group and the balance, the last part is clamped
C25_Witness ==
    /\ pc = "planned"
    /\ MultiBranch
    /\ Len(pNotes) = MaxNotes
    /\ ChunkCount = 2
    /\ pBalance > 0
    /\ pFee > 0
    /\ Len(pParts) = 2
    /\ pParts[1].amount = ChunkFunds(1) - pFee
    /\ pParts[2].amount < ChunkFunds(2) - pFee

\* the methods that spend shielded funds
SpendingMethods ==
    {"transferMulti", "withdrawMulti", "transferSingle", "withdrawSingle"}

\* C26: a transfer or withdrawal whose synchronisation cycle reported
\* readyToTransact = false builds, proves and submits no transaction.
C26_NoTransferWhenNotReady ==
    (method \in SpendingMethods /\ attemptReady = "false") =>
        /\ posted = <<>>
        /\ attemptState \notin {"building", "proving", "sent", "jobId"}
        /\ proofs = <<>>

\* C27: once a cycle has resolved or rejected, none of its batches applies a
\* state update or saves a memo: no batch of an ended cycle leaves a
\* parseTxs call towards account.updateState or saveDecryptedMemo.
C27_NoMutationAfterEnd ==
    [][\A c \in Cycles :
          cycles[c].status \in {"resolved", "rejected"} =>
              \A b \in 1..Len(cycles[c].batches) :
                  /\ ~(/\ cycles[c].batches[b].st = "parseMined"
                        /\ cycles'[c].batches[b].st \in {"parsePending", "done"})
                  /\ ~(/\ cycles[c].batches[b].st = "parsePending"
                        /\ cycles'[c].batches[b].st = "done")]_vars

\* the indices of the mined entries whose state update was applied by the
\* m-th applied batch of token t
AppliedIndices(t, m) ==
    LET c == applied[t][m][1]
        b == CHOOSE x \in 1..Len(cycles[c].batches) :
                 cycles[c].batches[x].i = applied[t][m][2]
    IN  StateUpdate(MinedTxs(cycles[c].batches[b].txs))

\* the number of times the state update of the entry with index e was
\* applied
AppliedCount(t, e) ==
    Cardinality({m \in 1..Len(applied[t]) : e \in AppliedIndices(t, m)})

\* the cycles of token t
CyclesOf(t) == {c \in Cycles : cycles[c].token = t}

\* C28: when the latest cycle of a token has resolved, the state update of
\* every mined entry of the log below the account's next index has been
\* applied exactly once, whatever happened in the cycles before.
C28_ExactlyOnce ==
    \A t \in AllTokens :
        (/\ CyclesOf(t) # {}
         /\ cycles[MaxFrom(-1, CyclesOf(t))].status = "resolved")
            => \A p \in 1..rMined[t] :
                   (p - 1) * OUTPLUSONE < nextTreeIndex[t]
                       => AppliedCount(t, (p - 1) * OUTPLUSONE) = 1

\* C29: when calcMaxAvailableTransfer returns m >= MIN_TX_AMOUNT,
\* getTransactionParts(m, atomicTxFee) on the same state returns a
\* non-empty plan whose amounts sum to m.
C29_MaxIsTransferable ==
    (pc = "maxPlanned" /\ pMax >= MIN_TX_AMOUNT)
        => (pParts # <<>> /\ SumAmounts(pParts) = pMax)

\* C30: for a target >= MIN_TX_AMOUNT, if every group of notes sums to
\* at least max(fee, MIN_TX_AMOUNT) and the account balance plus the notes
\* cover the target plus one fee per group, the planner returns a
\* non-empty plan.
C30_Completeness ==
    (/\ pc = "planned"
     /\ pTarget >= MIN_TX_AMOUNT
     /\ pFee >= 0
     /\ \A j \in 1..ChunkCount :
            SumOver(ChunkPositions(j), pNotes) >= Max2(pFee, MIN_TX_AMOUNT)
     /\ Funds >= pTarget + pFee * ChunkCount)
        => pParts # <<>>

(***************************************************************************)
(* getOptimisticTotalBalance, client.ts:200-228, within the synchronising   *)
(* client: getTotalBalance (client.ts:178-184) and getAllHistory            *)
(* (client.ts:231-237) each call updateState and read the state when the   *)
(* call has resolved.  A continuation runs as soon as the awaited promise  *)
(* settles, before any response of the relayer or of the worker is         *)
(* handled.                                                                *)
(***************************************************************************)
\* the transaction of a log entry as the history shows it
EntryRecord(kind, pending) ==
    IF kind = "out"
    THEN [type |-> "TransferOut", amount |-> 7, fee |-> 2, pending |-> pending]
    ELSE [type |-> "TransferIn", amount |-> 40, fee |-> 0, pending |-> pending]

\* what a mined entry of the given kind adds to the shielded balance
EntryValue(kind) ==
    CASE kind = "in" -> 40
      [] kind = "out" -> 0 - (7 + 2)
      [] OTHER -> 0

\* the indices of the entries whose state update the account has received
AppliedEntries(t) ==
    UNION {AppliedIndices(t, m) : m \in 1..Len(applied[t])}

\* zpStates[t].getTotalBalance() (client.ts:183): the account and the notes
\* as the applied state updates left them
StateTotalBalance(t) ==
    SumOver(AppliedEntries(t),
            [i \in AppliedEntries(t) |->
                EntryValue(rlog[t][i \div OUTPLUSONE + 1])])

\* zpStates[t].history.getAllHistory() (client.ts:236): the records, by index
RECURSIVE HistoryAsSeq(_, _)
HistoryAsSeq(t, h) ==
    IF h = {} THEN <<>>
    ELSE LET r == CHOOSE x \in h :
                      \A y \in h : \/ x.index < y.index
                                   \/ (x.index = y.index /\ (x.pending \/ ~y.pending))
         IN  <<EntryRecord(rlog[t][r.index \div OUTPLUSONE + 1], r.pending)>>
                 \o HistoryAsSeq(t, h \ {r})

\* the token whose balance is asked for
BalanceToken == "A"

\* getOptimisticTotalBalance has been called on a new client and is about
\* to make the updateState call of getTotalBalance; the relayer holds
\* pending entries only
SnapshotInit ==
    /\ PlannerOff /\ WaitOff /\ AttemptOff /\ JobOff
    /\ tokens = {BalanceToken}
    /\ nextTreeIndex = [t \in AllTokens |-> 0]
    /\ history = [t \in AllTokens |-> {}]
    /\ updateStatePromise = 0
    /\ cycles = <<>>
    /\ calls = <<>>
    /\ rlog = [t \in AllTokens |->
                  IF t = BalanceToken
                  THEN [p \in 1..MaxLog |-> IF p % 2 = 1 THEN "in" ELSE "out"]
                  ELSE <<>>]
    /\ rMined = [t \in AllTokens |-> 0]
    /\ rDelta = [t \in AllTokens |-> 0]
    /\ failures = 0
    /\ applied = [t \in AllTokens |-> <<>>]
    /\ directRead = "none"
    /\ freed = FALSE
    /\ cleaning = [t \in AllTokens |-> 0]
    /\ confirmedBalance = 0
    /\ historyRecords = <<>>
    /\ optimisticBalance = <<>>
    /\ balanceStage = "balance"
    /\ balanceCall = 1

\* the method is at an updateState call it has not made yet
BalanceCallDue ==
    /\ balanceStage \in {"balance", "history"}
    /\ Len(calls) < balanceCall

\* the updateState call that the method awaits has settled
BalanceCallSettled ==
    /\ balanceStage \in {"balance", "history"}
    /\ balanceCall \in 1..Len(calls)
    /\ calls[balanceCall].st # "waiting"

\* nothing of the method is due: the client handles the next response
NoContinuation == ~BalanceCallDue /\ ~BalanceCallSettled

\* client.ts:180 and 233: the updateState call of getTotalBalance or of
\* getAllHistory
BalanceUpdateState ==
    /\ BalanceCallDue
    /\ UpdateState(BalanceToken)

\* client.ts:203 with 183: the call awaited by getTotalBalance has resolved;
\* the confirmed balance is read and getAllHistory is called
ReadConfirmedBalance ==
    /\ balanceStage = "balance"
    /\ BalanceCallSettled
    /\ calls[balanceCall].st = "resolved"
    /\ confirmedBalance' = StateTotalBalance(BalanceToken)
    /\ balanceStage' = "history"
    /\ balanceCall' = Len(calls) + 1
    /\ UNCHANGED <<historyRecords, optimisticBalance>>
    /\ UNCHANGED notBalance

\* client.ts:233-236: the call awaited by getAllHistory has resolved and
\* history.getAllHistory() is called; the history store answers in a later
\* task.  historyRecords holds the records as they are at the call.
getAllHistory ==
    /\ balanceStage = "history"
    /\ BalanceCallSettled
    /\ calls[balanceCall].st = "resolved"
    /\ historyRecords' = HistoryAsSeq(BalanceToken, history[BalanceToken])
    /\ balanceStage' = "records"
    /\ UNCHANGED <<confirmedBalance, optimisticBalance, balanceCall>>
    /\ UNCHANGED notBalance

\* client.ts:204-227 with 236: the history store answers, with the records
\* as they were at the call (atCall) or as they are now, after whatever the
\* client did in between; the loop runs and the balance is returned
ReadHistory(atCall) ==
    /\ balanceStage = "records"
    /\ historyRecords' =
           IF atCall THEN historyRecords
           ELSE HistoryAsSeq(BalanceToken, history[BalanceToken])
    /\ optimisticBalance' =
           << getOptimisticTotalBalance(confirmedBalance, historyRecords') >>
    /\ balanceStage' = "done"
    /\ UNCHANGED <<confirmedBalance, balanceCall>>
    /\ UNCHANGED notBalance

\* the awaited updateState call rejects, and getOptimisticTotalBalance with it
BalanceRejected ==
    /\ BalanceCallSettled
    /\ calls[balanceCall].st = "rejected"
    /\ balanceStage' = "error"
    /\ UNCHANGED <<confirmedBalance, historyRecords, optimisticBalance,
                   balanceCall>>
    /\ UNCHANGED notBalance

SnapshotNext ==
    \/ BalanceUpdateState
    \/ ReadConfirmedBalance
    \/ getAllHistory
    \/ \E atCall \in BOOLEAN : ReadHistory(atCall)
    \/ BalanceRejected
    \/ \E t \in AllTokens : NoContinuation /\ UpdateState(t)
    \/ \E c \in 1..MaxCalls : NoContinuation /\ InfoOk(c)
    \/ \E c \in 1..MaxCalls : NoContinuation /\ InfoFail(c)
    \/ \E c \in 1..MaxCalls, b \in 1..(MaxLog + 1) :
           NoContinuation /\ FetchOk(c, b)
    \/ \E c \in 1..MaxCalls, b \in 1..(MaxLog + 1) :
           NoContinuation /\ ParseMinedOk(c, b)
    \/ \E c \in 1..MaxCalls, b \in 1..(MaxLog + 1) :
           NoContinuation /\ ParsePendingOk(c, b)
    \/ \E c \in 1..MaxCalls, b \in 1..(MaxLog + 1) :
           NoContinuation /\ BatchFail(c, b)
    \/ \E t \in AllTokens : NoContinuation /\ cleanState(t)
    \/ \E t \in AllTokens : NoContinuation /\ CleanSettled(t)
    \/ NoContinuation /\ free
    \/ \E t \in AllTokens : NoContinuation /\ RelayerMine(t)
    \/ \E t \in AllTokens : NoContinuation /\ RelayerInfo(t)

SnapshotSpec == SnapshotInit /\ [][SnapshotNext]_vars

\* C31: the value getOptimisticTotalBalance returns is the one of a single
\* snapshot: it is the confirmed balance plus the pending records' amounts
\* as the state holds them when the method returns, so that an entry mined
\* while the call was in progress is counted exactly once.
C31_OneSnapshot ==
    [][(balanceStage # "done" /\ balanceStage' = "done")
          => optimisticBalance'[1] =
                 getOptimisticTotalBalance(
                     StateTotalBalance(BalanceToken),
                     HistoryAsSeq(BalanceToken, history[BalanceToken]))]_vars

====
